---------------------------- MODULE Spec2Model ----------------------------
(***************************************************************************)
(* A model of the 6502 / 2A03 emulator core: the CPU (src/src/cpu/cpu.rs), *)
(* the bus with its RAM, I/O register file and ROM (src/src/bus/bus.rs),   *)
(* the NROM mapper (src/src/rom/mapper.rs) and the ROM loader              *)
(* (src/src/rom/rom.rs).                                                   *)
(*                                                                         *)
(* A handler of the program is an operator from a machine record to a      *)
(* machine record: the record holds the CPU's fields, the bus devices, the *)
(* byte the last bus read returned (data), the bus accesses made so far    *)
(* (log) and the panic that ended the call, if any (fault).  An action     *)
(* applies one handler to the current state, whole.                        *)
(*                                                                         *)
(* Rust's plain + and - on u8/u16/usize panic when the build checks        *)
(* overflow (the debug profile) and wrap when it does not (the release     *)
(* profile): overflow_checks is the build's choice, drawn in Init.         *)
(***************************************************************************)
EXTENDS Integers, Sequences, FiniteSets, TLC

(***************************************************************************)
(* Bit arithmetic on naturals.                                             *)
(***************************************************************************)
RECURSIVE BitAnd(_, _)
BitAnd(m, n) ==
    IF m = 0 \/ n = 0 THEN 0
    ELSE (m % 2) * (n % 2) + 2 * BitAnd(m \div 2, n \div 2)

RECURSIVE BitOr(_, _)
BitOr(m, n) ==
    IF m = 0 THEN n
    ELSE IF n = 0 THEN m
    ELSE (IF m % 2 = 1 \/ n % 2 = 1 THEN 1 ELSE 0) + 2 * BitOr(m \div 2, n \div 2)

RECURSIVE BitXor(_, _)
BitXor(m, n) ==
    IF m = 0 THEN n
    ELSE IF n = 0 THEN m
    ELSE ((m + n) % 2) + 2 * BitXor(m \div 2, n \div 2)

\* !v on a u8
Not8(v) == 255 - v

\* v as u8, v as u16 (truncating casts, also of a negative i16)
AsU8(v) == v % 256
AsU16(v) == v % 65536

\* v as i16 of a u16
AsI16(v) == IF v >= 32768 THEN v - 65536 ELSE v

Bit(v, k) == (v \div (2 ^ k)) % 2

(***************************************************************************)
(* bus.rs: the memory map.                                                 *)
(***************************************************************************)
ROM_START == \H8000
RAM_START == \H0000
RAM_END == \H1FFF
PPU_START == \H2000
PPU_END == \H3FFF
APU_IO_START == \H4000
APU_IO_END == \H4017
TEST_MODE_START == \H4018
TEST_MODE_END == \H401F
CARTRIDGE_START == \H4020
CARTRIDGE_END == \HFFFF
RAM_SIZE == \H800

\* usize arithmetic wraps modulo 2^32 on the wasm32 target the crate is built
\* for.  Of a wrapped address - ROM_START only two things are used: its
\* remainder modulo 0x4000, and whether it is past the end of prg; every
\* power of two above 2^16 gives the same two answers, and 2^30 is one the
\* model checker's integers hold.
USIZE_MOD == 1073741824

NoFault == "none"

\* e; F(the value of e): the steps of a handler run in order, each on the
\* machine the step before it left
Then(e, F(_)) == CHOOSE r \in {F(v) : v \in {e}} : TRUE

\* a panic ends the call: the first one is kept, later steps change nothing
Panic(s, why) == [s EXCEPT !.fault = IF @ = NoFault THEN why ELSE @]

\* a plain +, -: panics on overflow when the build checks it, wraps otherwise
Overflow(s, overflows) ==
    Then(s, LAMBDA t :
        IF overflows /\ t.overflow_checks THEN Panic(t, "overflow") ELSE t)

\* An array of bytes is kept as the function from the indices that hold a
\* non-zero byte to that byte: every index outside its domain holds 0.
ArrayGet(array, i) == IF i \in DOMAIN array THEN array[i] ELSE 0

ArrayPut(array, i, data) ==
    LET keep == IF data = 0 THEN (DOMAIN array) \ {i} ELSE (DOMAIN array) \cup {i}
    IN  [j \in keep |-> IF j = i THEN data ELSE array[j]]

\* RAM::new: every byte 0
RAM_new == <<>>

RAM_read(memory, address) ==
    LET i == address % RAM_SIZE
    IN  ArrayGet(memory, i)

\* RAM::write without the mirror: the byte goes to the index the bus gave
RAM_write_unmirrored(memory, address, data) == ArrayPut(memory, address, data)

RAM_write(memory, address, data) ==
    LET i == address % RAM_SIZE
    IN  ArrayPut(memory, i, data)

(***************************************************************************)
(* mapper.rs: NROM.                                                        *)
(***************************************************************************)
\* prg_conversion without the mirroring of a single bank
prg_conversion_unmirrored(num_prg_banks, address) == address

prg_conversion(num_prg_banks, address) ==
    IF num_prg_banks > 1 THEN address ELSE address % \H4000

chr_conversion(num_prg_banks, num_chr_banks, address) ==
    IF num_prg_banks > 1 THEN address ELSE address % \H2000

\* ROM::new: prg holds num_prg_banks * 0x4000 bytes
PrgLen(num_prg_banks) == num_prg_banks * \H4000

\* impl BusDevice for ROM
ROM_read(s, address) ==
    LET i == prg_conversion(s.num_prg_banks, address)
    IN  IF i >= PrgLen(s.num_prg_banks) THEN Panic(s, "index")
        ELSE [s EXCEPT !.data = ArrayGet(s.prg, i)]

ROM_write(s, address, data) ==
    LET i == prg_conversion(s.num_prg_banks, address)
    IN  IF i >= PrgLen(s.num_prg_banks) THEN Panic(s, "index")
        ELSE [s EXCEPT !.prg = ArrayPut(s.prg, i, data)]

(***************************************************************************)
(* bus.rs: the I/O register file.                                          *)
(***************************************************************************)
IORegisters_new ==
    [pulse_1 |-> [vol |-> 0, sweep |-> 0, lo |-> 0, hi |-> 0],
     pulse_2 |-> [vol |-> 0, sweep |-> 0, lo |-> 0, hi |-> 0],
     triangle |-> [linear |-> 0, lo |-> 0, hi |-> 0],
     noise |-> [vol |-> 0, lo |-> 0, hi |-> 0],
     dmc |-> [freq |-> 0, raw |-> 0, start |-> 0, len |-> 0],
     control_status |-> 0,
     frame_counter |-> 0]

IORegisters_read(s, address) ==
    IF address = \H15 THEN Panic(s, "unimplemented") ELSE Panic(s, "unreachable")

\* IORegisters::write that takes the unused offsets for the register that
\* follows them
IORegisters_store_unused(io, address, data) ==
    CASE address = \H09 -> [io EXCEPT !.triangle.lo = data]
      [] address = \H0D -> [io EXCEPT !.noise.lo = data]
      [] OTHER -> io

IORegisters_store(io, address, data) ==
    CASE address = \H00 -> [io EXCEPT !.pulse_1.vol = data]
      [] address = \H01 -> [io EXCEPT !.pulse_1.sweep = data]
      [] address = \H02 -> [io EXCEPT !.pulse_1.lo = data]
      [] address = \H03 -> [io EXCEPT !.pulse_1.hi = data]
      [] address = \H04 -> [io EXCEPT !.pulse_2.vol = data]
      [] address = \H05 -> [io EXCEPT !.pulse_2.sweep = data]
      [] address = \H06 -> [io EXCEPT !.pulse_2.lo = data]
      [] address = \H07 -> [io EXCEPT !.pulse_2.hi = data]
      [] address = \H08 -> [io EXCEPT !.triangle.linear = data]
      [] address = \H09 -> io
      [] address = \H0A -> [io EXCEPT !.triangle.lo = data]
      [] address = \H0B -> [io EXCEPT !.triangle.hi = data]
      [] address = \H0C -> [io EXCEPT !.noise.vol = data]
      [] address = \H0D -> io
      [] address = \H0E -> [io EXCEPT !.noise.lo = data]
      [] address = \H0F -> [io EXCEPT !.noise.hi = data]
      [] address = \H10 -> [io EXCEPT !.dmc.freq = data]
      [] address = \H11 -> [io EXCEPT !.dmc.raw = data]
      [] address = \H12 -> [io EXCEPT !.dmc.start = data]
      [] address = \H13 -> [io EXCEPT !.dmc.len = data]
      [] address = \H14 -> io
      [] address = \H15 -> [io EXCEPT !.control_status = data]
      [] address = \H16 -> io
      [] address = \H17 -> [io EXCEPT !.frame_counter = data]
      [] OTHER -> io

IORegisters_write(s, address, data) ==
    IF address > \H17 THEN Panic(s, "unreachable")
    ELSE [s EXCEPT !.io_registers = IORegisters_store(s.io_registers, address, data)]

(***************************************************************************)
(* bus.rs: the bus.                                                        *)
(***************************************************************************)
\* Bus::get_mapped_device_and_real_address: the device, the device-local
\* address, and the panic of an unmapped region.  address - ROM_START is a
\* usize subtraction: below ROM_START it overflows.
get_mapped_device_and_real_address(s, address) ==
    CASE address >= RAM_START /\ address <= RAM_END ->
            [device |-> "ram", real_address |-> address, fault |-> NoFault]
      [] address >= PPU_START /\ address <= PPU_END ->
            [device |-> "ppu", real_address |-> 0, fault |-> "unimplemented"]
      [] address >= APU_IO_START /\ address <= APU_IO_END ->
            [device |-> "io", real_address |-> address - APU_IO_START, fault |-> NoFault]
      [] address >= TEST_MODE_START /\ address <= TEST_MODE_END ->
            [device |-> "test", real_address |-> 0, fault |-> "unimplemented"]
      [] address >= CARTRIDGE_START /\ address <= CARTRIDGE_END ->
            [device |-> "rom",
             real_address |-> (address - ROM_START) % USIZE_MOD,
             fault |-> IF address < ROM_START /\ s.overflow_checks
                       THEN "overflow" ELSE NoFault]
      [] OTHER ->
            [device |-> "none", real_address |-> 0, fault |-> "unreachable"]

\* impl MemoryMap for Bus: read.  The byte read is left in s.data.
Bus_read(s, address) ==
    Then(s, LAMBDA t :
        IF t.fault # NoFault THEN t
        ELSE Then(get_mapped_device_and_real_address(t, address), LAMBDA m :
             Then(CASE m.fault # NoFault -> Panic(t, m.fault)
                    [] m.device = "ram" ->
                          [t EXCEPT !.data = RAM_read(t.ram, m.real_address)]
                    [] m.device = "io" -> IORegisters_read(t, m.real_address)
                    [] OTHER -> ROM_read(t, m.real_address),
                  LAMBDA r :
                    IF r.fault # NoFault THEN r
                    ELSE [r EXCEPT !.log = Append(@, <<"r", address, r.data>>)])))

\* impl MemoryMap for Bus: write
Bus_write(s, address, data) ==
    Then(s, LAMBDA t :
        IF t.fault # NoFault THEN t
        ELSE Then(get_mapped_device_and_real_address(t, address), LAMBDA m :
             Then(CASE m.fault # NoFault -> Panic(t, m.fault)
                    [] m.device = "ram" ->
                          [t EXCEPT !.ram = RAM_write(t.ram, m.real_address, data)]
                    [] m.device = "io" -> IORegisters_write(t, m.real_address, data)
                    [] OTHER -> ROM_write(t, m.real_address, data),
                  LAMBDA r :
                    IF r.fault # NoFault THEN r
                    ELSE [r EXCEPT !.log = Append(@, <<"w", address, data>>)])))

(***************************************************************************)
(* cpu/opcode.rs: the opcode table.  One row per opcode byte:              *)
(* <<byte, instruction, addressing mode, base cycles>>.                    *)
(***************************************************************************)
AddressingModes ==
    {"ZeroPage", "IndexedZeroPageX", "IndexedZeroPageY", "Absolute",
     "IndexedAbsoluteX", "IndexedAbsoluteY", "Indirect", "Implied",
     "Accumulator", "Immediate", "Relative", "IndexedIndirect",
     "IndirectIndexed"}

\* the eight modes of ADC, AND, CMP, EOR, LDA, ORA, SBC: the low five bits
\* of the opcode byte select the mode
AluRows(name, base) ==
    {<<base + \H09, name, "Immediate", 2>>,
     <<base + \H05, name, "ZeroPage", 3>>,
     <<base + \H15, name, "IndexedZeroPageX", 4>>,
     <<base + \H0D, name, "Absolute", 4>>,
     <<base + \H1D, name, "IndexedAbsoluteX", 4>>,
     <<base + \H19, name, "IndexedAbsoluteY", 4>>,
     <<base + \H01, name, "IndexedIndirect", 6>>,
     <<base + \H11, name, "IndirectIndexed", 5>>}

\* the five modes of ASL, LSR, ROL, ROR
ShiftRows(name, base) ==
    {<<base + \H0A, name, "Accumulator", 2>>,
     <<base + \H06, name, "ZeroPage", 5>>,
     <<base + \H16, name, "IndexedZeroPageX", 6>>,
     <<base + \H0E, name, "Absolute", 6>>,
     <<base + \H1E, name, "IndexedAbsoluteX", 7>>}

\* the read-modify-write illegal opcodes DCP, ISC, RLA, RRA, SLO, SRE
IllegalRmwRows(name, base) ==
    {<<base + \H07, name, "ZeroPage", 5>>,
     <<base + \H17, name, "IndexedZeroPageX", 6>>,
     <<base + \H0F, name, "Absolute", 6>>,
     <<base + \H1F, name, "IndexedAbsoluteX", 7>>,
     <<base + \H1B, name, "IndexedAbsoluteY", 7>>}

OfficialRows ==
    AluRows("ORA", \H00) \cup AluRows("AND", \H20) \cup AluRows("EOR", \H40)
    \cup AluRows("ADC", \H60) \cup AluRows("LDA", \HA0) \cup AluRows("CMP", \HC0)
    \cup AluRows("SBC", \HE0)
    \cup ShiftRows("ASL", \H00) \cup ShiftRows("ROL", \H20)
    \cup ShiftRows("LSR", \H40) \cup ShiftRows("ROR", \H60)
    \cup {<<\H90, "BCC", "Relative", 2>>, <<\HB0, "BCS", "Relative", 2>>,
          <<\HF0, "BEQ", "Relative", 2>>, <<\H30, "BMI", "Relative", 2>>,
          <<\HD0, "BNE", "Relative", 2>>, <<\H10, "BPL", "Relative", 2>>,
          <<\H50, "BVC", "Relative", 2>>, <<\H70, "BVS", "Relative", 2>>,
          <<\H24, "BIT", "ZeroPage", 3>>, <<\H2C, "BIT", "Absolute", 4>>,
          <<\H00, "BRK", "Implied", 7>>,
          <<\H18, "CLC", "Implied", 2>>, <<\HD8, "CLD", "Implied", 2>>,
          <<\H58, "CLI", "Implied", 2>>, <<\HB8, "CLV", "Implied", 2>>,
          <<\HE0, "CPX", "Immediate", 2>>, <<\HE4, "CPX", "ZeroPage", 3>>,
          <<\HEC, "CPX", "Absolute", 4>>,
          <<\HC0, "CPY", "Immediate", 2>>, <<\HC4, "CPY", "ZeroPage", 3>>,
          <<\HCC, "CPY", "Absolute", 4>>,
          <<\HC6, "DEC", "ZeroPage", 5>>, <<\HD6, "DEC", "IndexedZeroPageX", 6>>,
          <<\HCE, "DEC", "Absolute", 6>>, <<\HDE, "DEC", "IndexedAbsoluteX", 7>>,
          <<\HCA, "DEX", "Implied", 2>>, <<\H88, "DEY", "Implied", 2>>,
          <<\HE6, "INC", "ZeroPage", 5>>, <<\HF6, "INC", "IndexedZeroPageX", 6>>,
          <<\HEE, "INC", "Absolute", 6>>, <<\HFE, "INC", "IndexedAbsoluteX", 7>>,
          <<\HE8, "INX", "Implied", 2>>, <<\HC8, "INY", "Implied", 2>>,
          <<\H4C, "JMP", "Absolute", 3>>, <<\H6C, "JMP", "Indirect", 5>>,
          <<\H20, "JSR", "Absolute", 6>>,
          <<\HA2, "LDX", "Immediate", 2>>, <<\HA6, "LDX", "ZeroPage", 3>>,
          <<\HB6, "LDX", "IndexedZeroPageY", 4>>, <<\HAE, "LDX", "Absolute", 4>>,
          <<\HBE, "LDX", "IndexedAbsoluteY", 4>>,
          <<\HA0, "LDY", "Immediate", 2>>, <<\HA4, "LDY", "ZeroPage", 3>>,
          <<\HB4, "LDY", "IndexedZeroPageX", 4>>, <<\HAC, "LDY", "Absolute", 4>>,
          <<\HBC, "LDY", "IndexedAbsoluteX", 4>>,
          <<\HEA, "NOP", "Implied", 2>>,
          <<\H48, "PHA", "Implied", 3>>, <<\H08, "PHP", "Implied", 3>>,
          <<\H68, "PLA", "Implied", 4>>, <<\H28, "PLP", "Implied", 4>>,
          <<\H40, "RTI", "Implied", 6>>, <<\H60, "RTS", "Implied", 6>>,
          <<\H38, "SEC", "Implied", 2>>, <<\HF8, "SED", "Implied", 2>>,
          <<\H78, "SEI", "Implied", 2>>,
          <<\H85, "STA", "ZeroPage", 3>>, <<\H95, "STA", "IndexedZeroPageX", 4>>,
          <<\H8D, "STA", "Absolute", 4>>, <<\H9D, "STA", "IndexedAbsoluteX", 5>>,
          <<\H99, "STA", "IndexedAbsoluteY", 5>>, <<\H81, "STA", "IndexedIndirect", 6>>,
          <<\H91, "STA", "IndirectIndexed", 6>>,
          <<\H86, "STX", "ZeroPage", 3>>, <<\H96, "STX", "IndexedZeroPageY", 4>>,
          <<\H8E, "STX", "Absolute", 4>>,
          <<\H84, "STY", "ZeroPage", 3>>, <<\H94, "STY", "IndexedZeroPageX", 4>>,
          <<\H8C, "STY", "Absolute", 4>>,
          <<\HAA, "TAX", "Implied", 2>>, <<\HA8, "TAY", "Implied", 2>>,
          <<\HBA, "TSX", "Implied", 2>>, <<\H8A, "TXA", "Implied", 2>>,
          <<\H9A, "TXS", "Implied", 2>>, <<\H98, "TYA", "Implied", 2>>}

IllegalRows ==
    IllegalRmwRows("SLO", \H00) \cup IllegalRmwRows("RLA", \H20)
    \cup IllegalRmwRows("SRE", \H40) \cup IllegalRmwRows("RRA", \H60)
    \cup IllegalRmwRows("DCP", \HC0) \cup IllegalRmwRows("ISC", \HE0)
    \cup {<<\HA7, "LAX", "ZeroPage", 3>>, <<\HB7, "LAX", "IndexedZeroPageY", 4>>,
          <<\HAF, "LAX", "Absolute", 4>>, <<\HBF, "LAX", "IndexedAbsoluteY", 4>>,
          <<\HA3, "LAX", "IndexedIndirect", 6>>, <<\HB3, "LAX", "IndirectIndexed", 5>>,
          <<\H87, "SAX", "ZeroPage", 3>>, <<\H97, "SAX", "IndexedZeroPageY", 4>>,
          <<\H8F, "SAX", "Absolute", 4>>, <<\H83, "SAX", "IndexedIndirect", 6>>,
          <<\H4B, "ALR", "Immediate", 2>>, <<\H0B, "ANC", "Immediate", 2>>,
          <<\H6B, "ARR", "Immediate", 2>>, <<\HCB, "AXS", "Immediate", 2>>}

OpcodeRows == OfficialRows \cup IllegalRows

\* Opcode::decode, for every byte: the decoded opcode, or ok = FALSE for
\* DecodeError::IllegalUnimplementedOpcode
OpcodeTable ==
    [b \in 0..255 |->
        IF \E r \in OpcodeRows : r[1] = b
        THEN LET r == CHOOSE q \in OpcodeRows : q[1] = b
             IN  [ok |-> TRUE, instruction |-> r[2], mode |-> r[3], cycles |-> r[4]]
        ELSE [ok |-> FALSE, instruction |-> "UNK", mode |-> "Implied", cycles |-> 0]]

decode(byte) == OpcodeTable[byte]

(***************************************************************************)
(* cpu.rs: status flags, and the steps shared by the handlers.             *)
(***************************************************************************)
\* enum StatusFlags: the bit masks.  The always-set bit 5 is named B and
\* the pushed-only bit 4 is named U.
C == 1
Z == 2
I == 4
D == 8
U == 16
B == 32
V == 64
N == 128

get_status(s, flag) == (s.p \div flag) % 2 = 1

set_status(s, flag, state) ==
    [s EXCEPT !.p = IF state
                    THEN (IF (@ \div flag) % 2 = 1 THEN @ ELSE @ + flag)
                    ELSE (IF (@ \div flag) % 2 = 1 THEN @ - flag ELSE @)]

\* the value a handler or a fetch returns
Return(s, v) == [s EXCEPT !.ret = v]

\* self.pc += n
pc_add(s, n) ==
    Then(s, LAMBDA t :
        Overflow([t EXCEPT !.pc = (@ + n) % 65536], t.pc + n > 65535))

\* self.sp -= n
sp_sub(s, n) ==
    Then(s, LAMBDA t :
        Overflow([t EXCEPT !.sp = (@ - n) % 256], t.sp - n < 0))

\* self.sp += n
sp_add(s, n) ==
    Then(s, LAMBDA t :
        Overflow([t EXCEPT !.sp = (@ + n) % 256], t.sp + n > 255))

\* set_status(Z, v == 0); set_status(N, v & 0x80 != 0)
set_zn(s, v) == set_status(set_status(s, Z, v = 0), N, Bit(v, 7) = 1)

Word(hi, lo) == hi * 256 + lo

(***************************************************************************)
(* cpu.rs: the addressing-mode fetches.  Each leaves the operand or the    *)
(* effective address in current_fetched_word and returns 1 when the index  *)
(* crossed a page.                                                         *)
(***************************************************************************)
\* _extra_cycles that never reports a page crossing
_extra_cycles_never(addr, hi) == 0

_extra_cycles(addr, hi) ==
    IF (addr \div 256) * 256 # hi * 256 THEN 1 ELSE 0

fetch_accumulator(s) ==
    Return([s EXCEPT !.current_fetched_word = s.a], 0)

fetch_immediate(s) ==
    Then(Bus_read(s, s.pc), LAMBDA s1 :
    Return(pc_add([s1 EXCEPT !.current_fetched_word = s1.data], 1), 0))

fetch_zero_page(s) ==
    Then(Bus_read(s, s.pc), LAMBDA s1 :
    Then(pc_add([s1 EXCEPT !.current_fetched_word = s1.data], 1), LAMBDA s2 :
    Return([s2 EXCEPT !.current_fetched_word = @ % 256], 0)))

fetch_zero_page_x(s) ==
    Then(Bus_read(s, s.pc), LAMBDA s1 :
    Then(pc_add([s1 EXCEPT !.current_fetched_word = s1.data + s1.x], 1), LAMBDA s2 :
    Return([s2 EXCEPT !.current_fetched_word = @ % 256], 0)))

fetch_zero_page_y(s) ==
    Then(Bus_read(s, s.pc), LAMBDA s1 :
    Then(pc_add([s1 EXCEPT !.current_fetched_word = s1.data + s1.y], 1), LAMBDA s2 :
    Return([s2 EXCEPT !.current_fetched_word = @ % 256], 0)))

\* let lo = read(pc); let hi = read(pc + 1): the two operand bytes, in s.lo
\* and s.data
read_operand_word(s) ==
    Then(Bus_read(s, s.pc), LAMBDA s1 :
    Then(Overflow([s1 EXCEPT !.lo = s1.data], s1.pc + 1 > 65535), LAMBDA s2 :
    Bus_read(s2, (s2.pc + 1) % 65536)))

fetch_absolute(s) ==
    Then(read_operand_word(s), LAMBDA s1 :
    Then(pc_add(s1, 2), LAMBDA s2 :
    Return([s2 EXCEPT !.current_fetched_word = Word(s1.data, s1.lo)], 0)))

fetch_absolute_x_indexed(s) ==
    Then(read_operand_word(s), LAMBDA s1 :
    Then(pc_add([s1 EXCEPT !.current_fetched_word =
                    (Word(s1.data, s1.lo) + s1.x) % 65536], 2), LAMBDA s3 :
    Return(s3, _extra_cycles(s3.current_fetched_word, s1.data))))

fetch_absolute_y_indexed(s) ==
    Then(read_operand_word(s), LAMBDA s1 :
    Then(pc_add([s1 EXCEPT !.current_fetched_word =
                    (Word(s1.data, s1.lo) + s1.y) % 65536], 2), LAMBDA s3 :
    Return(s3, _extra_cycles(s3.current_fetched_word, s1.data))))

\* the high byte of the target is read first, then the low byte; a pointer
\* at the end of a page takes its high byte from the start of that page
\* fetch_indirect without the page wrap of the pointer's high byte
fetch_indirect_unwrapped(s) ==
    Then(read_operand_word(s), LAMBDA s1 :
    Then(pc_add(s1, 2), LAMBDA s2 :
    Then(Bus_read(s2, (Word(s1.data, s1.lo) + 1) % 65536), LAMBDA s3 :
    Then(Bus_read(s3, Word(s1.data, s1.lo)), LAMBDA s4 :
    Return([s4 EXCEPT !.current_fetched_word = Word(s3.data, s4.data)], 0)))))

fetch_indirect(s) ==
    Then(read_operand_word(s), LAMBDA s1 :
    Then(pc_add(s1, 2), LAMBDA s2 :
    Then(IF s1.lo = \HFF
         THEN Bus_read(s2, (Word(s1.data, s1.lo) \div 256) * 256)
         ELSE Then(Overflow(s2, Word(s1.data, s1.lo) + 1 > 65535), LAMBDA s2o :
              Bus_read(s2o, (Word(s1.data, s1.lo) + 1) % 65536)), LAMBDA s3 :
    Then(Bus_read(s3, Word(s1.data, s1.lo)), LAMBDA s4 :
    Return([s4 EXCEPT !.current_fetched_word = Word(s3.data, s4.data)], 0)))))

fetch_implied(s) ==
    Return([s EXCEPT !.current_fetched_word = 0], 0)

fetch_relative(s) ==
    Then(Bus_read(s, s.pc), LAMBDA s1 :
    Then(pc_add([s1 EXCEPT !.current_fetched_word = s1.data], 1), LAMBDA s2 :
    Return([s2 EXCEPT !.current_fetched_word =
                IF Bit(@, 7) = 1 THEN @ + \HFF00 ELSE @], 0)))

\* fetch_indexed_indirect that masks the pointer to the zero page before it
\* adds one for the high byte
fetch_indexed_indirect_unmasked(s) ==
    Then(Bus_read(s, s.pc), LAMBDA s1 :
    Then(pc_add([s1 EXCEPT !.current_fetched_word = s1.data], 1), LAMBDA s2 :
    Then(Bus_read(s2, (s2.current_fetched_word + s2.x) % 256), LAMBDA s3 :
    Then(Bus_read(s3, ((s2.current_fetched_word + s3.x) % 256) + 1), LAMBDA s4 :
    Return([s4 EXCEPT !.current_fetched_word = Word(s4.data, s3.data)], 0)))))

\* (zp,X).  + binds tighter than &: both pointer reads are masked to the
\* zero page after the index is added.
fetch_indexed_indirect(s) ==
    Then(Bus_read(s, s.pc), LAMBDA s1 :
    Then(pc_add([s1 EXCEPT !.current_fetched_word = s1.data], 1), LAMBDA s2 :
    Then(Bus_read(s2, (s2.current_fetched_word + s2.x) % 256), LAMBDA s3 :
    Then(Bus_read(s3, (s2.current_fetched_word + 1 + s3.x) % 256), LAMBDA s4 :
    Return([s4 EXCEPT !.current_fetched_word = Word(s4.data, s3.data)], 0)))))

\* (zp),Y
fetch_indirect_indexed(s) ==
    Then(Bus_read(s, s.pc), LAMBDA s1 :
    Then(pc_add([s1 EXCEPT !.current_fetched_word = s1.data], 1), LAMBDA s2 :
    Then(Bus_read(s2, s2.current_fetched_word % 256), LAMBDA s3 :
    Then(Bus_read(s3, (s2.current_fetched_word + 1) % 256), LAMBDA s4 :
    Then([s4 EXCEPT !.current_fetched_word =
             (Word(s4.data, s3.data) + s4.y) % 65536], LAMBDA s5 :
    Return(s5, _extra_cycles(s5.current_fetched_word, s4.data)))))))

\* fetch that reads no operand byte, whatever the mode
fetch_always_implied(s, am) == fetch_implied(s)

fetch(s, am) ==
    CASE am = "ZeroPage" -> fetch_zero_page(s)
      [] am = "IndexedZeroPageX" -> fetch_zero_page_x(s)
      [] am = "IndexedZeroPageY" -> fetch_zero_page_y(s)
      [] am = "Absolute" -> fetch_absolute(s)
      [] am = "IndexedAbsoluteX" -> fetch_absolute_x_indexed(s)
      [] am = "IndexedAbsoluteY" -> fetch_absolute_y_indexed(s)
      [] am = "Indirect" -> fetch_indirect(s)
      [] am = "Implied" -> fetch_implied(s)
      [] am = "Accumulator" -> fetch_accumulator(s)
      [] am = "Immediate" -> fetch_immediate(s)
      [] am = "Relative" -> fetch_relative(s)
      [] am = "IndexedIndirect" -> fetch_indexed_indirect(s)
      [] OTHER -> fetch_indirect_indexed(s)

\* The operand an instruction works on, left in s.data.  In IndexedIndirect
\* mode the byte after the effective address is read too, and dropped.
fetch_operand(s) ==
    CASE s.current_opcode.mode \in {"Immediate", "Accumulator", "Relative"} ->
            [s EXCEPT !.data = s.current_fetched_word % 256]
      [] s.current_opcode.mode = "IndexedIndirect" ->
            Then(Overflow(s, s.current_fetched_word + 1 > 65535), LAMBDA s1 :
            Then(Bus_read(s1, (s1.current_fetched_word + 1) % 65536), LAMBDA s2 :
            Bus_read(s2, s2.current_fetched_word)))
      [] OTHER -> Bus_read(s, s.current_fetched_word)

(***************************************************************************)
(* cpu.rs: the instruction handlers.  Each returns 1 when the instruction  *)
(* pays the page-cross cycle of its addressing mode.                       *)
(***************************************************************************)
StackAddr(sp) == \H0100 + sp

\* add_with_carry without the carry coming in
add_without_carry_in(s, mode) ==
    Then(fetch_operand(s), LAMBDA s1 :
    Then(s1.a + s1.data, LAMBDA sum :
    Then(BitAnd(BitAnd(Not8(BitXor(s1.a, s1.data)), BitXor(s1.a, sum)), \H80) # 0,
         LAMBDA overflow :
    Then(set_status(s1, C, sum > \HFF), LAMBDA s2 :
    Then(set_status(s2, Z, sum % 256 = 0), LAMBDA s3 :
    Then(set_status(s3, V, overflow), LAMBDA s4 :
    Then(set_status(s4, N, Bit(sum, 7) = 1), LAMBDA s5 :
    Return([s5 EXCEPT !.a = sum % 256], 1))))))))

add_with_carry(s, mode) ==
    Then(fetch_operand(s), LAMBDA s1 :
    Then(s1.a + s1.data + (IF get_status(s1, C) THEN 1 ELSE 0), LAMBDA sum :
    Then(BitAnd(BitAnd(Not8(BitXor(s1.a, s1.data)), BitXor(s1.a, sum)), \H80) # 0,
         LAMBDA overflow :
    Then(set_status(s1, C, sum > \HFF), LAMBDA s2 :
    Then(set_status(s2, Z, sum % 256 = 0), LAMBDA s3 :
    Then(set_status(s3, V, overflow), LAMBDA s4 :
    Then(set_status(s4, N, Bit(sum, 7) = 1), LAMBDA s5 :
    Return([s5 EXCEPT !.a = sum % 256], 1))))))))

logical_and(s, mode) ==
    Then(fetch_operand(s), LAMBDA s1 :
    Then([s1 EXCEPT !.a = BitAnd(s1.a, s1.data)], LAMBDA s2 :
    Return(set_zn(s2, s2.a), 1)))

arithmetic_shift_left(s, mode) ==
    Then(IF mode = "Accumulator" THEN [s EXCEPT !.data = s.a]
         ELSE Bus_read(s, s.current_fetched_word), LAMBDA s1 :
    Then(s1.data * 2, LAMBDA shifted :
    Then(set_status(s1, C, shifted > \HFF), LAMBDA s2 :
    Then(set_status(s2, Z, shifted % 256 = 0), LAMBDA s3 :
    Then(set_status(s3, N, Bit(shifted, 7) = 1), LAMBDA s4 :
    Return(IF mode = "Accumulator" THEN [s4 EXCEPT !.a = shifted % 256]
           ELSE Bus_write(s4, s4.current_fetched_word, shifted % 256), 0))))))

\* a taken branch: one more cycle, and another when the target is in
\* another page than the address after the operand.  The sum is an i16 +.
\* _branch_helper without the cycle of a page crossing
_branch_helper_one_cycle(s) ==
    Then([s EXCEPT !.cycles = @ + 1], LAMBDA s1 :
    Then(AsI16(s1.pc) + AsI16(s1.current_fetched_word), LAMBDA sum :
    Then(Overflow(s1, sum > 32767 \/ sum < -32768), LAMBDA s2 :
    [s2 EXCEPT !.pc = AsU16(sum)])))

_branch_helper(s) ==
    Then([s EXCEPT !.cycles = @ + 1], LAMBDA s1 :
    Then(AsI16(s1.pc) + AsI16(s1.current_fetched_word), LAMBDA sum :
    Then(Overflow(s1, sum > 32767 \/ sum < -32768), LAMBDA s2 :
    Then(IF AsU16(sum) \div 256 # s2.pc \div 256
         THEN [s2 EXCEPT !.cycles = @ + 1] ELSE s2, LAMBDA s3 :
    [s3 EXCEPT !.pc = AsU16(sum)]))))

branch_if(s, taken) == Return(IF taken THEN _branch_helper(s) ELSE s, 0)

branch_if_carry_clear(s) == branch_if(s, ~get_status(s, C))
branch_if_carry_set(s) == branch_if(s, get_status(s, C))
branch_if_equal(s) == branch_if(s, get_status(s, Z))
branch_if_minus(s) == branch_if(s, get_status(s, N))
branch_if_not_equal(s) == branch_if(s, ~get_status(s, Z))
branch_if_positive(s) == branch_if(s, ~get_status(s, N))
branch_if_overflow_clear(s) == branch_if(s, ~get_status(s, V))
branch_if_overflow_set(s) == branch_if(s, get_status(s, V))

bit_test(s) ==
    Then(fetch_operand(s), LAMBDA s1 :
    Then(set_status(s1, Z, BitAnd(s1.a, s1.data) = 0), LAMBDA s2 :
    Then(set_status(s2, N, Bit(s1.data, 7) = 1), LAMBDA s3 :
    Return(set_status(s3, V, Bit(s1.data, 6) = 1), 0))))

\* BRK
\* force_interrupt without the byte skipped after the opcode
force_interrupt_no_gap(s) ==
    Then(set_status(s, I, TRUE), LAMBDA s2 :
    Then(Bus_write(s2, StackAddr(s2.sp), s2.pc \div 256), LAMBDA s2a :
    Then(Overflow(s2a, s2a.sp - 1 < 0), LAMBDA s2b :
    Then(Bus_write(s2b, StackAddr((s2b.sp - 1) % 256), s2b.pc % 256), LAMBDA s2c :
    Then(sp_sub(s2c, 2), LAMBDA s5 :
    Then(set_status(s5, B, TRUE), LAMBDA s6 :
    Then(Bus_write(s6, StackAddr(s6.sp), s6.p), LAMBDA s7 :
    Then(sp_sub(s7, 1), LAMBDA s8 :
    Then(set_status(s8, B, FALSE), LAMBDA s9 :
    Then(Bus_read(s9, \HFFFF), LAMBDA s10 :
    Then(Bus_read(s10, \HFFFE), LAMBDA s11 :
    Return([s11 EXCEPT !.pc = Word(s10.data, s11.data)], 0))))))))))))

force_interrupt(s) ==
    Then(pc_add(s, 1), LAMBDA s1 :
    Then(set_status(s1, I, TRUE), LAMBDA s2 :
    Then(Bus_write(s2, StackAddr(s2.sp), s2.pc \div 256), LAMBDA s2a :
    Then(Overflow(s2a, s2a.sp - 1 < 0), LAMBDA s2b :
    Then(Bus_write(s2b, StackAddr((s2b.sp - 1) % 256), s2b.pc % 256), LAMBDA s2c :
    Then(sp_sub(s2c, 2), LAMBDA s5 :
    Then(set_status(s5, B, TRUE), LAMBDA s6 :
    Then(Bus_write(s6, StackAddr(s6.sp), s6.p), LAMBDA s7 :
    Then(sp_sub(s7, 1), LAMBDA s8 :
    Then(set_status(s8, B, FALSE), LAMBDA s9 :
    \* the high byte of the vector is read first
    Then(Bus_read(s9, \HFFFF), LAMBDA s10 :
    Then(Bus_read(s10, \HFFFE), LAMBDA s11 :
    Return([s11 EXCEPT !.pc = Word(s10.data, s11.data)], 0)))))))))))))

clear_carry_flag(s) == Return(set_status(s, C, FALSE), 0)
clear_decimal_mode(s) == Return(set_status(s, D, FALSE), 0)
clear_interrupt_disable(s) == Return(set_status(s, I, FALSE), 0)
clear_overflow_flag(s) == Return(set_status(s, V, FALSE), 0)

_compare_helper(s, register_value) ==
    Then(fetch_operand(s), LAMBDA s1 :
    Then((register_value - s1.data) % 256, LAMBDA temp_difference :
    Then(set_status(s1, C, register_value >= s1.data), LAMBDA s2 :
    Then(set_status(s2, Z, temp_difference = 0), LAMBDA s3 :
    set_status(s3, N, Bit(temp_difference, 7) = 1)))))

compare(s, mode) == Return(_compare_helper(s, s.a), 1)
compare_x_register(s, mode) == Return(_compare_helper(s, s.x), 1)
compare_y_register(s, mode) == Return(_compare_helper(s, s.y), 1)

decrement_memory(s) ==
    Then(fetch_operand(s), LAMBDA s1 :
    Then(Bus_write(s1, s1.current_fetched_word, (s1.data - 1) % 256), LAMBDA s2 :
    Return(set_zn(s2, (s1.data - 1) % 256), 0)))

decrement_x_register(s) ==
    Then([s EXCEPT !.x = (@ - 1) % 256], LAMBDA s1 : Return(set_zn(s1, s1.x), 0))

decrement_y_register(s) ==
    Then([s EXCEPT !.y = (@ - 1) % 256], LAMBDA s1 : Return(set_zn(s1, s1.y), 0))

exclusive_or(s, mode) ==
    Then(fetch_operand(s), LAMBDA s1 :
    Then([s1 EXCEPT !.a = BitXor(s1.a, s1.data)], LAMBDA s2 :
    Return(set_zn(s2, s2.a), 1)))

increment_memory(s) ==
    Then(fetch_operand(s), LAMBDA s1 :
    Then(Bus_write(s1, s1.current_fetched_word, (s1.data + 1) % 256), LAMBDA s2 :
    Return(set_zn(s2, (s1.data + 1) % 256), 0)))

increment_x_register(s) ==
    Then([s EXCEPT !.x = (@ + 1) % 256], LAMBDA s1 : Return(set_zn(s1, s1.x), 0))

increment_y_register(s) ==
    Then([s EXCEPT !.y = (@ + 1) % 256], LAMBDA s1 : Return(set_zn(s1, s1.y), 0))

jump(s) == Return([s EXCEPT !.pc = s.current_fetched_word], 0)

\* jump_to_subroutine pushing the address after the instruction
jump_to_subroutine_next(s) ==
    Then(Bus_write(s, StackAddr(s.sp), s.pc \div 256), LAMBDA s1a :
    Then(Overflow(s1a, s1a.sp - 1 < 0), LAMBDA s1b :
    Then(Bus_write(s1b, StackAddr((s1b.sp - 1) % 256), s1b.pc % 256), LAMBDA s1c :
    Then(sp_sub(s1c, 2), LAMBDA s4 :
    Return([s4 EXCEPT !.pc = s4.current_fetched_word], 0)))))

jump_to_subroutine(s) ==
    Then(Overflow([s EXCEPT !.pc = (@ - 1) % 65536], s.pc - 1 < 0), LAMBDA s1 :
    Then(Bus_write(s1, StackAddr(s1.sp), s1.pc \div 256), LAMBDA s1a :
    Then(Overflow(s1a, s1a.sp - 1 < 0), LAMBDA s1b :
    Then(Bus_write(s1b, StackAddr((s1b.sp - 1) % 256), s1b.pc % 256), LAMBDA s1c :
    Then(sp_sub(s1c, 2), LAMBDA s4 :
    Return([s4 EXCEPT !.pc = s4.current_fetched_word], 0))))))

\* load_accumulator leaving the flags alone
load_accumulator_no_flags(s, mode) ==
    Then(fetch_operand(s), LAMBDA s1 :
    Return([s1 EXCEPT !.a = s1.data], 1))

load_accumulator(s, mode) ==
    Then(fetch_operand(s), LAMBDA s1 :
    Return(set_zn([s1 EXCEPT !.a = s1.data], s1.data), 1))

load_x_register(s, mode) ==
    Then(fetch_operand(s), LAMBDA s1 :
    Return(set_zn([s1 EXCEPT !.x = s1.data], s1.data), 1))

load_y_register(s, mode) ==
    Then(fetch_operand(s), LAMBDA s1 :
    Return(set_zn([s1 EXCEPT !.y = s1.data], s1.data), 1))

logical_shift_right(s, mode) ==
    Then(IF mode = "Accumulator" THEN [s EXCEPT !.data = s.a]
         ELSE fetch_operand(s), LAMBDA s1 :
    Then(set_status(s1, C, s1.data % 2 = 1), LAMBDA s2 :
    Then(set_zn(s2, s1.data \div 2), LAMBDA s3 :
    Return(IF mode = "Accumulator" THEN [s3 EXCEPT !.a = s1.data \div 2]
           ELSE Bus_write(s3, s3.current_fetched_word, s1.data \div 2), 0))))

no_operation(s) == Return(s, 1)

logical_inclusive_or(s, mode) ==
    Then(fetch_operand(s), LAMBDA s1 :
    Then([s1 EXCEPT !.a = BitOr(s1.a, s1.data)], LAMBDA s2 :
    Return(set_zn(s2, s2.a), 1)))

push_accumulator(s) ==
    Then(Bus_write(s, StackAddr(s.sp), s.a), LAMBDA s1 :
    Return(sp_sub(s1, 1), 0))

push_processor_status(s) ==
    Then(set_status(s, U, TRUE), LAMBDA s1 :
    Then(Bus_write(s1, StackAddr(s1.sp), s1.p), LAMBDA s2 :
    Then(sp_sub(s2, 1), LAMBDA s3 :
    Return(set_status(s3, U, FALSE), 0))))

pull_accumulator(s) ==
    Then(sp_add(s, 1), LAMBDA s1 :
    Then(Bus_read(s1, StackAddr(s1.sp)), LAMBDA s2 :
    Return(set_zn([s2 EXCEPT !.a = s2.data], s2.data), 0)))

\* pull_processor_status without the clearing of bit 4
pull_processor_status_raw(s) ==
    Then(sp_add(s, 1), LAMBDA s1 :
    Then(Bus_read(s1, StackAddr(s1.sp)), LAMBDA s2 :
    Return([s2 EXCEPT !.p = s2.data], 0)))

pull_processor_status(s) ==
    Then(sp_add(s, 1), LAMBDA s1 :
    Then(Bus_read(s1, StackAddr(s1.sp)), LAMBDA s2 :
    Return(set_status([s2 EXCEPT !.p = s2.data], U, FALSE), 0)))

rotate_left(s, mode) ==
    Then(IF mode = "Accumulator" THEN [s EXCEPT !.data = s.a]
         ELSE fetch_operand(s), LAMBDA s1 :
    Then(((s1.data * 2) % 256) + (IF get_status(s1, C) THEN 1 ELSE 0), LAMBDA shifted :
    Then(set_status(s1, C, Bit(s1.data, 7) = 1), LAMBDA s2 :
    Then(set_zn(s2, shifted), LAMBDA s3 :
    Return(IF mode = "Accumulator" THEN [s3 EXCEPT !.a = shifted]
           ELSE Bus_write(s3, s3.current_fetched_word, shifted), 0)))))

rotate_right(s, mode) ==
    Then(IF mode = "Accumulator" THEN [s EXCEPT !.data = s.a]
         ELSE fetch_operand(s), LAMBDA s1 :
    Then((s1.data \div 2) + (IF get_status(s1, C) THEN 128 ELSE 0), LAMBDA shifted :
    Then(set_status(s1, C, s1.data % 2 = 1), LAMBDA s2 :
    Then(set_zn(s2, shifted), LAMBDA s3 :
    Return(IF mode = "Accumulator" THEN [s3 EXCEPT !.a = shifted]
           ELSE Bus_write(s3, s3.current_fetched_word, shifted), 0)))))

\* RTI that adds one to the popped word, as RTS does
return_from_interrupt_next(s) ==
    Then(sp_add(s, 1), LAMBDA s1 :
    Then(Bus_read(s1, StackAddr(s1.sp)), LAMBDA s2 :
    Then(sp_add([s2 EXCEPT !.p = s2.data], 1), LAMBDA s3 :
    Then(Bus_read(s3, StackAddr(s3.sp)), LAMBDA s4 :
    Then(Overflow(s4, s4.sp + 1 > 255), LAMBDA s4o :
    Then(Bus_read(s4o, StackAddr((s4o.sp + 1) % 256)), LAMBDA s5 :
    Return(sp_add([s5 EXCEPT !.pc = (Word(s5.data, s4.data) + 1) % 65536], 1), 0)))))))

\* RTI: P, then PC low, then PC high
return_from_interrupt(s) ==
    Then(sp_add(s, 1), LAMBDA s1 :
    Then(Bus_read(s1, StackAddr(s1.sp)), LAMBDA s2 :
    Then(sp_add([s2 EXCEPT !.p = s2.data], 1), LAMBDA s3 :
    Then(Bus_read(s3, StackAddr(s3.sp)), LAMBDA s4 :
    Then(Overflow(s4, s4.sp + 1 > 255), LAMBDA s4o :
    Then(Bus_read(s4o, StackAddr((s4o.sp + 1) % 256)), LAMBDA s5 :
    Return(sp_add([s5 EXCEPT !.pc = Word(s5.data, s4.data)], 1), 0)))))))

\* RTS
return_from_subroutine(s) ==
    Then(sp_add(s, 1), LAMBDA s1 :
    Then(Bus_read(s1, StackAddr(s1.sp)), LAMBDA s2 :
    Then(Overflow(s2, s2.sp + 1 > 255), LAMBDA s2o :
    Then(Bus_read(s2o, StackAddr((s2o.sp + 1) % 256)), LAMBDA s3 :
    Then(pc_add([s3 EXCEPT !.pc = Word(s3.data, s2.data)], 1), LAMBDA s4 :
    Return(sp_add(s4, 1), 0))))))

\* difference is an i16: Z tests all of it, not its low byte
subtract_with_carry(s) ==
    Then(fetch_operand(s), LAMBDA s1 :
    Then(s1.a - s1.data - (IF get_status(s1, C) THEN 0 ELSE 1), LAMBDA difference :
    Then(set_status(s1, C, difference >= 0), LAMBDA s2 :
    Then(set_status(s2, Z, difference = 0), LAMBDA s3 :
    Then(set_status(s3, V, Bit(BitXor(s1.a, s1.data), 7) = 1
                           /\ Bit(BitXor(s1.a, AsU8(difference)), 7) = 1), LAMBDA s4 :
    Then(set_status(s4, N, Bit(AsU16(difference), 7) = 1), LAMBDA s5 :
    Return([s5 EXCEPT !.a = AsU8(difference)], 1)))))))

set_carry_flag(s) == Return(set_status(s, C, TRUE), 0)
set_decimal_flag(s) == Return(set_status(s, D, TRUE), 0)
set_interrupt_disable(s) == Return(set_status(s, I, TRUE), 0)

store_accumulator(s) == Return(Bus_write(s, s.current_fetched_word, s.a), 0)
store_x_register(s) == Return(Bus_write(s, s.current_fetched_word, s.x), 0)
store_y_register(s) == Return(Bus_write(s, s.current_fetched_word, s.y), 0)

transfer_accumulator_to_x(s) == Return(set_zn([s EXCEPT !.x = s.a], s.a), 0)
transfer_accumulator_to_y(s) == Return(set_zn([s EXCEPT !.y = s.a], s.a), 0)
transfer_stack_pointer_to_x(s) == Return(set_zn([s EXCEPT !.x = s.sp], s.sp), 0)
transfer_x_to_accumulator(s) == Return(set_zn([s EXCEPT !.a = s.x], s.x), 0)
transfer_x_to_stack_pointer(s) == Return([s EXCEPT !.sp = s.x], 0)
transfer_y_to_accumulator(s) == Return(set_zn([s EXCEPT !.a = s.y], s.y), 0)

\* unimplemented!()
alr(s) == Panic(s, "unimplemented")
anc(s) == Panic(s, "unimplemented")
arr(s) == Panic(s, "unimplemented")
axs(s) == Panic(s, "unimplemented")

lax(s) ==
    Then(fetch_operand(s), LAMBDA s1 :
    Return(set_zn([s1 EXCEPT !.a = s1.data, !.x = s1.data], s1.data), 1))

sax(s) == Return(Bus_write(s, s.current_fetched_word, BitAnd(s.a, s.x)), 0)

dcp(s) ==
    Then(fetch_operand(s), LAMBDA s1 :
    Then(Bus_write(s1, s1.current_fetched_word, (s1.data - 1) % 256), LAMBDA s2 :
    Then(set_zn(s2, (s1.data - 1) % 256), LAMBDA s3 :
    Return(_compare_helper(s3, s3.a), 0))))

isc(s) ==
    Then(increment_memory(s), LAMBDA s1 : Return(subtract_with_carry(s1), 0))

rla(s) ==
    Then(rotate_left(s, s.current_opcode.mode), LAMBDA s1 :
    Return(logical_and(s1, s1.current_opcode.mode), 0))

rra(s) ==
    Then(rotate_right(s, s.current_opcode.mode), LAMBDA s1 :
    Return(add_with_carry(s1, s1.current_opcode.mode), 0))

slo(s) ==
    Then(arithmetic_shift_left(s, s.current_opcode.mode), LAMBDA s1 :
    Return(logical_inclusive_or(s1, s1.current_opcode.mode), 0))

sre(s) ==
    Then(logical_shift_right(s, s.current_opcode.mode), LAMBDA s1 :
    Return(exclusive_or(s1, s1.current_opcode.mode), 0))

run_instruction(s, instruction, mode) ==
    CASE instruction = "ADC" -> add_with_carry(s, mode)
      [] instruction = "AND" -> logical_and(s, mode)
      [] instruction = "ASL" -> arithmetic_shift_left(s, mode)
      [] instruction = "BCC" -> branch_if_carry_clear(s)
      [] instruction = "BCS" -> branch_if_carry_set(s)
      [] instruction = "BEQ" -> branch_if_equal(s)
      [] instruction = "BIT" -> bit_test(s)
      [] instruction = "BMI" -> branch_if_minus(s)
      [] instruction = "BNE" -> branch_if_not_equal(s)
      [] instruction = "BPL" -> branch_if_positive(s)
      [] instruction = "BRK" -> force_interrupt(s)
      [] instruction = "BVC" -> branch_if_overflow_clear(s)
      [] instruction = "BVS" -> branch_if_overflow_set(s)
      [] instruction = "CLC" -> clear_carry_flag(s)
      [] instruction = "CLD" -> clear_decimal_mode(s)
      [] instruction = "CLI" -> clear_interrupt_disable(s)
      [] instruction = "CLV" -> clear_overflow_flag(s)
      [] instruction = "CMP" -> compare(s, mode)
      [] instruction = "CPX" -> compare_x_register(s, mode)
      [] instruction = "CPY" -> compare_y_register(s, mode)
      [] instruction = "DEC" -> decrement_memory(s)
      [] instruction = "DEX" -> decrement_x_register(s)
      [] instruction = "DEY" -> decrement_y_register(s)
      [] instruction = "EOR" -> exclusive_or(s, mode)
      [] instruction = "INC" -> increment_memory(s)
      [] instruction = "INX" -> increment_x_register(s)
      [] instruction = "INY" -> increment_y_register(s)
      [] instruction = "JMP" -> jump(s)
      [] instruction = "JSR" -> jump_to_subroutine(s)
      [] instruction = "LDA" -> load_accumulator(s, mode)
      [] instruction = "LDX" -> load_x_register(s, mode)
      [] instruction = "LDY" -> load_y_register(s, mode)
      [] instruction = "LSR" -> logical_shift_right(s, mode)
      [] instruction = "NOP" -> no_operation(s)
      [] instruction = "ORA" -> logical_inclusive_or(s, mode)
      [] instruction = "PHA" -> push_accumulator(s)
      [] instruction = "PHP" -> push_processor_status(s)
      [] instruction = "PLA" -> pull_accumulator(s)
      [] instruction = "PLP" -> pull_processor_status(s)
      [] instruction = "ROL" -> rotate_left(s, mode)
      [] instruction = "ROR" -> rotate_right(s, mode)
      [] instruction = "RTI" -> return_from_interrupt(s)
      [] instruction = "RTS" -> return_from_subroutine(s)
      [] instruction = "SBC" -> subtract_with_carry(s)
      [] instruction = "SEC" -> set_carry_flag(s)
      [] instruction = "SED" -> set_decimal_flag(s)
      [] instruction = "SEI" -> set_interrupt_disable(s)
      [] instruction = "STA" -> store_accumulator(s)
      [] instruction = "STX" -> store_x_register(s)
      [] instruction = "STY" -> store_y_register(s)
      [] instruction = "TAX" -> transfer_accumulator_to_x(s)
      [] instruction = "TAY" -> transfer_accumulator_to_y(s)
      [] instruction = "TSX" -> transfer_stack_pointer_to_x(s)
      [] instruction = "TXA" -> transfer_x_to_accumulator(s)
      [] instruction = "TXS" -> transfer_x_to_stack_pointer(s)
      [] instruction = "TYA" -> transfer_y_to_accumulator(s)
      [] instruction = "ALR" -> alr(s)
      [] instruction = "ANC" -> anc(s)
      [] instruction = "ARR" -> arr(s)
      [] instruction = "AXS" -> axs(s)
      [] instruction = "LAX" -> lax(s)
      [] instruction = "SAX" -> sax(s)
      [] instruction = "DCP" -> dcp(s)
      [] instruction = "ISC" -> isc(s)
      [] instruction = "RLA" -> rla(s)
      [] instruction = "RRA" -> rra(s)
      [] instruction = "SLO" -> slo(s)
      [] instruction = "SRE" -> sre(s)
      [] OTHER -> Panic(s, "unreachable")

(***************************************************************************)
(***************************************************************************)
(* cpu.rs: the host-facing operations.                                     *)
(***************************************************************************)
execute(s, opcode) ==
    Then(fetch(s, opcode.mode), LAMBDA s1 :
    Then(run_instruction(s1, opcode.instruction, opcode.mode), LAMBDA s2 :
    \* address_page_cross_cycle & potential_extra_instruction_cycle
    Return(s2, BitAnd(s1.ret, s2.ret))))

\* a byte with no row is Err(..): the callers panic with "Invalid opcode!"
load_instruction(s) ==
    Then(Bus_read(s, s.pc), LAMBDA s1 :
    Then(decode(s1.data), LAMBDA opcode :
        IF ~opcode.ok THEN Panic(s1, "decode")
        ELSE [set_status(s1, B, TRUE) EXCEPT
                !.current_instruction = s1.data,
                !.current_opcode = [instruction |-> opcode.instruction,
                                    mode |-> opcode.mode,
                                    cycles |-> opcode.cycles],
                !.cycles = opcode.cycles]))

\* tick that takes two cycles off the counter
tick_two(s) ==
    Then(Overflow([s EXCEPT !.cycles = (@ - 2) % 256], s.cycles - 2 < 0), LAMBDA s1 :
    [s1 EXCEPT !.total_cycles = @ + 1])

\* tick that leaves total_cycles alone
tick_without_total(s) ==
    Overflow([s EXCEPT !.cycles = (@ - 1) % 256], s.cycles - 1 < 0)

\* self.cycles -= 1; self.total_cycles += 1.  total_cycles is a u32; the
\* behaviours checked end long before it could overflow.
tick(s) ==
    Then(Overflow([s EXCEPT !.cycles = (@ - 1) % 256], s.cycles - 1 < 0), LAMBDA s1 :
    [s1 EXCEPT !.total_cycles = @ + 1])

\* clock that fetches on every tick, whatever the counter holds
clock_fetches_every_tick(s) ==
    Then(load_instruction(s), LAMBDA s1 :
    Then(pc_add(s1, 1), LAMBDA s2 :
    Then(execute(s2, s2.current_opcode), LAMBDA s3 :
    Then(set_status([s3 EXCEPT !.cycles = @ + s3.ret], B, TRUE), LAMBDA s4 :
    tick(s4)))))

\* clock without the set_status(B, true) that follows execute
clock_leaves_status(s) ==
    IF s.cycles = 0
    THEN Then(load_instruction(s), LAMBDA s1 :
         Then(pc_add(s1, 1), LAMBDA s2 :
         Then(execute(s2, s2.current_opcode), LAMBDA s3 :
         tick([s3 EXCEPT !.cycles = @ + s3.ret]))))
    ELSE tick(s)

clock(s) ==
    IF s.cycles = 0
    THEN Then(load_instruction(s), LAMBDA s1 :
         Then(pc_add(s1, 1), LAMBDA s2 :
         Then(execute(s2, s2.current_opcode), LAMBDA s3 :
         Then(set_status([s3 EXCEPT !.cycles = @ + s3.ret], B, TRUE), LAMBDA s4 :
         tick(s4)))))
    ELSE tick(s)

\* the trace line is formatted from the fields and changes none of them
debug_clock(s) ==
    IF s.cycles = 0
    THEN Then(load_instruction(s), LAMBDA s1 :
         Then(pc_add(s1, 1), LAMBDA s2 :
         Then(execute(s2, s2.current_opcode), LAMBDA s3 :
         Then(set_status([s3 EXCEPT !.cycles = @ + s3.ret], B, TRUE), LAMBDA s4 :
         tick(s4)))))
    ELSE tick(s)

\* reset that leaves P as it was
reset_keeps_status(s) ==
    Then([s EXCEPT !.current_fetched_word = \HFFFC], LAMBDA s1 :
    Then(Bus_read(s1, s1.current_fetched_word), LAMBDA s2 :
    Then(Bus_read(s2, s2.current_fetched_word + 1), LAMBDA s3 :
    [s3 EXCEPT !.pc = Word(s3.data, s2.data),
               !.a = 0, !.x = 0, !.y = 0,
               !.sp = \HFD,
               !.cycles = 8])))

\* reset that loads the cycle counter with 0
reset_without_delay(s) ==
    Then([s EXCEPT !.current_fetched_word = \HFFFC], LAMBDA s1 :
    Then(Bus_read(s1, s1.current_fetched_word), LAMBDA s2 :
    Then(Bus_read(s2, s2.current_fetched_word + 1), LAMBDA s3 :
    [s3 EXCEPT !.pc = Word(s3.data, s2.data),
               !.a = 0, !.x = 0, !.y = 0,
               !.sp = \HFD,
               !.p = B,
               !.cycles = 0])))

reset(s) ==
    Then([s EXCEPT !.current_fetched_word = \HFFFC], LAMBDA s1 :
    Then(Bus_read(s1, s1.current_fetched_word), LAMBDA s2 :
    Then(Bus_read(s2, s2.current_fetched_word + 1), LAMBDA s3 :
    [s3 EXCEPT !.pc = Word(s3.data, s2.data),
               !.a = 0, !.x = 0, !.y = 0,
               !.sp = \HFD,
               !.p = B,
               !.cycles = 8])))

\* irq() without the test of the I flag
irq_unmasked(s) ==
    Then(Bus_write(s, StackAddr(s.sp), s.pc \div 256), LAMBDA s1 :
    Then(Overflow(s1, s1.sp - 1 < 0), LAMBDA s1o :
    Then(Bus_write(s1o, StackAddr((s1o.sp - 1) % 256), s1o.pc % 256), LAMBDA s2 :
    Then(sp_sub(s2, 2), LAMBDA s3 :
    Then(set_status(set_status(set_status(s3, B, FALSE), B, TRUE), I, TRUE),
         LAMBDA s4 :
    Then(Bus_write(s4, StackAddr(s4.sp), s4.p), LAMBDA s5 :
    Then(sp_sub(s5, 1), LAMBDA s6 :
    Then([s6 EXCEPT !.current_fetched_word = \HFFFE], LAMBDA s7 :
    Then(Bus_read(s7, s7.current_fetched_word), LAMBDA s8 :
    Then(Bus_read(s8, s8.current_fetched_word + 1), LAMBDA s9 :
    [s9 EXCEPT !.pc = Word(s9.data, s8.data), !.cycles = 7]))))))))))

irq(s) ==
    IF get_status(s, I) = FALSE
    THEN Then(Bus_write(s, StackAddr(s.sp), s.pc \div 256), LAMBDA s1 :
         Then(Overflow(s1, s1.sp - 1 < 0), LAMBDA s1o :
         Then(Bus_write(s1o, StackAddr((s1o.sp - 1) % 256), s1o.pc % 256), LAMBDA s2 :
         Then(sp_sub(s2, 2), LAMBDA s3 :
         Then(set_status(set_status(set_status(s3, B, FALSE), B, TRUE), I, TRUE),
              LAMBDA s4 :
         Then(Bus_write(s4, StackAddr(s4.sp), s4.p), LAMBDA s5 :
         Then(sp_sub(s5, 1), LAMBDA s6 :
         Then([s6 EXCEPT !.current_fetched_word = \HFFFE], LAMBDA s7 :
         Then(Bus_read(s7, s7.current_fetched_word), LAMBDA s8 :
         Then(Bus_read(s8, s8.current_fetched_word + 1), LAMBDA s9 :
         [s9 EXCEPT !.pc = Word(s9.data, s8.data), !.cycles = 7]))))))))))
    ELSE s

\* nmi() masked by the I flag as irq() is
nmi_masked(s) == IF get_status(s, I) = FALSE THEN irq_unmasked(s) ELSE s

nmi(s) ==
    Then(Bus_write(s, StackAddr(s.sp), s.pc \div 256), LAMBDA s1 :
    Then(Overflow(s1, s1.sp - 1 < 0), LAMBDA s1o :
    Then(Bus_write(s1o, StackAddr((s1o.sp - 1) % 256), s1o.pc % 256), LAMBDA s2 :
    Then(sp_sub(s2, 2), LAMBDA s3 :
    Then(set_status(set_status(set_status(s3, B, FALSE), B, TRUE), I, TRUE),
         LAMBDA s4 :
    Then(Bus_write(s4, StackAddr(s4.sp), s4.p), LAMBDA s5 :
    Then(sp_sub(s5, 1), LAMBDA s6 :
    Then([s6 EXCEPT !.current_fetched_word = \HFFFA], LAMBDA s7 :
    Then(Bus_read(s7, s7.current_fetched_word), LAMBDA s8 :
    Then(Bus_read(s8, s8.current_fetched_word + 1), LAMBDA s9 :
    [s9 EXCEPT !.pc = Word(s9.data, s8.data), !.cycles = 7]))))))))))

(***************************************************************************)
(* The ROM images the CPU is constructed with.  An image is its bank count *)
(* and its PRG bytes, written at the CPU addresses they are read from; the *)
(* bytes not listed are 0.                                                 *)
(***************************************************************************)
Lo(w) == w % 256
Hi(w) == w \div 256

\* the bytes of seq at CPU addresses addr, addr + 1, ...
Place(addr, seq) == [i \in addr..(addr + Len(seq) - 1) |-> seq[i - addr + 1]]

\* the NMI, reset and IRQ/BRK vectors at $FFFA-$FFFF
Vectors(nmi_pc, reset_pc, irq_pc) ==
    Place(\HFFFA, <<Lo(nmi_pc), Hi(nmi_pc), Lo(reset_pc), Hi(reset_pc),
                    Lo(irq_pc), Hi(irq_pc)>>)

\* the PRG vector of an image of num_banks banks holding bytes (CPU address
\* |-> byte) in $C000-$FFFF
PrgOf(num_banks, bytes) ==
    LET at(o) == CHOOSE c \in DOMAIN bytes :
                    prg_conversion(num_banks, c - ROM_START) = o
        offsets == {prg_conversion(num_banks, c - ROM_START) :
                        c \in {d \in DOMAIN bytes : bytes[d] # 0}}
    IN  [o \in offsets |-> bytes[at(o)]]

\* where the images keep their interrupt handlers and their reset entry
NmiHandler == \HC0E0
IrqHandler == \HC0F0
ResetEntry == \HC004

\* RTI at both handlers
Handlers == Place(NmiHandler, <<\H40>>) @@ Place(IrqHandler, <<\H40>>)
            @@ Vectors(NmiHandler, ResetEntry, IrqHandler)

\* LDX #$FF; LDA $C001,X; STA $10; LDY #$FF; LDA ($10),Y; STA ($10),Y;
\* INC $0201,X: indexed reads, stores and a read-modify-write that cross a
\* page
ProgramIndexed ==
    Place(\HC000, <<\HA2, \HFF, \HBD, \H01, \HC0, \H85, \H10, \HA0, \HFF,
                    \HB1, \H10, \H91, \H10, \HFE, \H01, \H02>>)
    @@ Place(\HC100, <<\H23>>) @@ Handlers

\* PHP; CLI; BRK: the pushes of P
ProgramStatus ==
    Place(\HC000, <<\H08, \H58, \H00>>) @@ Handlers

\* LDX #$01; LDA $10,X; LDX $10,Y; LDA $C100,Y; ASL A; LDA ($10,X); BNE +2;
\* JMP ($C020): the addressing modes the other images leave out
ProgramModes ==
    Place(\HC000, <<\HA2, \H01, \HB5, \H10, \HB6, \H10, \HB9, \H00, \HC1,
                    \H0A, \HA1, \H10, \HD0, \H02, \H6C, \H20, \HC0>>)
    @@ Place(\HC020, <<\H00, \HC0>>) @@ Place(\HC100, <<\H41>>) @@ Handlers

\* LDY #$FF; LDA $C001,Y; LDA $BF01,Y; STA $0201,Y; LDX $C001,Y: reads and a
\* store indexed by Y, across a page and within one
ProgramIndexedY ==
    Place(\HC000, <<\HA0, \HFF, \HB9, \H01, \HC0, \HB9, \H01, \HBF,
                    \H99, \H01, \H02, \HBE, \H01, \HC0>>)
    @@ Place(\HC100, <<\H23>>) @@ Handlers

\* LDA #$5A; STA $C010; LDA $C010; STA $0005; LDA $0805: a store into
\* PRG-ROM, and RAM through its mirror
ProgramStores ==
    Place(\HC000, <<\HA9, \H5A, \H8D, \H10, \HC0, \HAD, \H10, \HC0,
                    \H8D, \H05, \H00, \HAD, \H05, \H08>>)
    @@ Handlers

Images ==
    {[num_prg_banks |-> 1, bytes |-> ProgramIndexed],
     [num_prg_banks |-> 2, bytes |-> ProgramStatus],
     [num_prg_banks |-> 1, bytes |-> ProgramStores],
     [num_prg_banks |-> 1, bytes |-> ProgramModes],
     [num_prg_banks |-> 2, bytes |-> ProgramIndexedY]}

(***************************************************************************)
(* The state: the fields of CPU and of its Bus, the build's choice, and    *)
(* what the last call did.                                                 *)
(***************************************************************************)
VARIABLES
    a, x, y, pc, sp, p,         \* CPU registers
    cycles,                     \* cycles left of the instruction in progress
    total_cycles,
    current_instruction, current_opcode, current_fetched_word,
    ram, prg, io_registers,     \* the devices of the bus
    num_prg_banks,              \* ROMHeader.num_prg_banks, as the mapper holds it
    overflow_checks,            \* the build panics on integer overflow
    fault,                      \* the panic that ended the program, or "none"
    last_call,                  \* the operation called last
    bus_log,                    \* the bus accesses the last call made, in order
    since_reset,                \* clock ticks since the last reset(), -1 when
                                \* none is being counted
    host_calls,                 \* reset(), irq() and nmi() calls so far
    state,                      \* the State of lib.rs: its rom and its cpu
    returned                    \* what the last call on the State, or on the
                                \* mapper, returned

vars ==
    <<a, x, y, pc, sp, p, cycles, total_cycles, current_instruction,
      current_opcode, current_fetched_word, ram, prg, io_registers,
      num_prg_banks, overflow_checks, fault, last_call, bus_log, since_reset,
      host_calls, state, returned>>

\* Option: None, and Some(v)
None == [some |-> FALSE]
Some(v) == [some |-> TRUE, value |-> v]

\* State::new()
State_new == [rom |-> None, cpu |-> None]

\* no call on the State has returned yet
NothingReturned == [call |-> "none"]

\* how many clock ticks and how many host calls a behaviour holds
MaxTicks == 30
MaxHostCalls == 1

\* the machine record of the current state, at the start of a call
Machine ==
    [a |-> a, x |-> x, y |-> y, pc |-> pc, sp |-> sp, p |-> p,
     cycles |-> cycles, total_cycles |-> total_cycles,
     current_instruction |-> current_instruction,
     current_opcode |-> current_opcode,
     current_fetched_word |-> current_fetched_word,
     ram |-> ram, prg |-> prg, io_registers |-> io_registers,
     num_prg_banks |-> num_prg_banks, overflow_checks |-> overflow_checks,
     fault |-> NoFault, log |-> <<>>, data |-> 0, lo |-> 0, ret |-> 0]

\* the state a call leaves: the record it returns, or the panic alone
Becomes(r, call, ticks) ==
    /\ last_call' = call
    /\ fault' = r.fault
    /\ UNCHANGED <<num_prg_banks, overflow_checks, state, returned>>
    /\ IF r.fault # NoFault
       THEN UNCHANGED <<a, x, y, pc, sp, p, cycles, total_cycles,
                        current_instruction, current_opcode,
                        current_fetched_word, ram, prg, io_registers,
                        bus_log, since_reset>>
       ELSE /\ a' = r.a /\ x' = r.x /\ y' = r.y
            /\ pc' = r.pc /\ sp' = r.sp /\ p' = r.p
            /\ cycles' = r.cycles
            /\ total_cycles' = r.total_cycles
            /\ current_instruction' = r.current_instruction
            /\ current_opcode' = r.current_opcode
            /\ current_fetched_word' = r.current_fetched_word
            /\ ram' = r.ram /\ prg' = r.prg
            /\ io_registers' = r.io_registers
            /\ bus_log' = r.log
            /\ since_reset' = ticks

\* CPU::new(rom_vector), for each image and each build
Init ==
    /\ \E image \in Images :
        /\ num_prg_banks = image.num_prg_banks
        /\ prg = PrgOf(image.num_prg_banks, image.bytes)
    /\ overflow_checks \in BOOLEAN
    /\ a = 0 /\ x = 0 /\ y = 0
    /\ pc = \HC000
    /\ sp = \HFD
    /\ p = \H24
    /\ ram = RAM_new
    /\ io_registers = IORegisters_new
    /\ cycles = 0
    /\ current_instruction = 0
    /\ total_cycles = 7
    /\ current_opcode = [instruction |-> "NOP", mode |-> "Absolute", cycles |-> 0]
    /\ current_fetched_word = 0
    /\ fault = NoFault
    /\ last_call = "new"
    /\ bus_log = <<>>
    /\ since_reset = -1
    /\ host_calls = 0
    /\ state = State_new
    /\ returned = NothingReturned

Running == fault = NoFault

TicksLeft == total_cycles < 7 + MaxTicks

NextSinceReset == IF since_reset \in 0..8 THEN since_reset + 1 ELSE -1

Clock ==
    /\ Running /\ TicksLeft
    /\ \E r \in {clock(Machine)} : Becomes(r, "clock", NextSinceReset)
    /\ UNCHANGED host_calls

DebugClock ==
    /\ Running /\ TicksLeft
    /\ \E r \in {debug_clock(Machine)} : Becomes(r, "debug_clock", NextSinceReset)
    /\ UNCHANGED host_calls

Reset ==
    /\ Running /\ host_calls < MaxHostCalls
    /\ \E r \in {reset(Machine)} : Becomes(r, "reset", 0)
    /\ host_calls' = host_calls + 1

Irq ==
    /\ Running /\ host_calls < MaxHostCalls
    /\ \E r \in {irq(Machine)} : Becomes(r, "irq", -1)
    /\ host_calls' = host_calls + 1

Nmi ==
    /\ Running /\ host_calls < MaxHostCalls
    /\ \E r \in {nmi(Machine)} : Becomes(r, "nmi", -1)
    /\ host_calls' = host_calls + 1

Next == Clock \/ DebugClock \/ Reset \/ Irq \/ Nmi

Spec == Init /\ [][Next]_vars

(***************************************************************************)
(* What the properties below read off a step.                              *)
(***************************************************************************)
\* a step of clock() or debug_clock() that returned
ClockReturns == last_call' \in {"clock", "debug_clock"} /\ fault' = NoFault

\* such a step that started with the cycle counter at 0
FetchReturns == ClockReturns /\ cycles = 0

\* a step of irq() or nmi() that returned
InterruptReturns == last_call' \in {"irq", "nmi"} /\ fault' = NoFault

\* the byte a bus read of ROM space at addr returns
RomByte(addr) == ArrayGet(prg, prg_conversion(num_prg_banks, addr - ROM_START))

\* the word at $FFFC/$FFFD
ResetVector == Word(RomByte(\HFFFD), RomByte(\HFFFC))

\* C1: every clock() and every debug_clock() call that returns increases
\* total_cycles by exactly 1, whether it starts an instruction or continues
\* one.
C1_TotalCyclesAdvance ==
    [][ClockReturns => total_cycles' = total_cycles + 1]_vars

\* ticks of both kinds have been counted: the last one continued an
\* instruction
C1_Witness ==
    /\ last_call = "debug_clock" /\ fault = NoFault
    /\ total_cycles = 7 + 5 /\ cycles > 0 /\ bus_log = <<>>

\* C2: a tick reads an opcode from the bus if and only if the cycle counter
\* is 0 when it starts, and then the opcode is the byte at PC; a tick that
\* starts with a non-zero counter makes no bus access, leaves A, X, Y, SP, P,
\* PC and all memory unchanged and decreases the counter by exactly 1.
C2_FetchIffCounterZero ==
    [][ClockReturns =>
         /\ (bus_log' # <<>>) <=> (cycles = 0)
         /\ cycles = 0 =>
               /\ bus_log' # <<>>
               /\ bus_log'[1] = <<"r", pc, current_instruction'>>
         /\ cycles # 0 =>
               /\ UNCHANGED <<a, x, y, sp, p, pc, ram, prg, io_registers>>
               /\ cycles' = cycles - 1]_vars

\* LDX #$FF has been fetched and its second tick has run
C2_Witness ==
    /\ last_call = "clock" /\ fault = NoFault
    /\ current_instruction = \HA2 /\ x = \HFF
    /\ bus_log = <<>> /\ cycles = 0

\* C3, as the code has it: after a reset() that returns, SP = $FD,
\* A = X = Y = 0, P = $20 (bit 5 alone, the bit StatusFlags names B),
\* PC = the word at $FFFC/$FFFD and the cycle counter is 8.
C3_ResetState ==
    (last_call = "reset" /\ fault = NoFault) =>
        /\ sp = \HFD /\ a = 0 /\ x = 0 /\ y = 0
        /\ p = \H20
        /\ pc = ResetVector
        /\ cycles = 8

\* C3, as the claim has it: P holds bit 4 alone
C3_Original ==
    (last_call = "reset" /\ fault = NoFault) =>
        /\ sp = \HFD /\ a = 0 /\ x = 0 /\ y = 0
        /\ p = \H10
        /\ pc = ResetVector
        /\ cycles = 8

\* reset() has been called after the program ran for a while
C3_Witness ==
    /\ last_call = "reset" /\ fault = NoFault
    /\ total_cycles = 7 + 9 /\ ram # RAM_new

\* C4, as the code has it: after reset() the next eight clock() calls make
\* no bus access and leave PC alone, and the ninth reads the opcode at the
\* address loaded from the reset vector.
C4_FetchAfterResetDelay ==
    [][ClockReturns =>
         /\ since_reset \in 0..7 => (bus_log' = <<>> /\ pc' = pc)
         /\ since_reset = 8 =>
               /\ pc = ResetVector
               /\ bus_log' # <<>>
               /\ bus_log'[1] = <<"r", ResetVector, current_instruction'>>]_vars

\* C4, as the claim has it: the very next clock() call reads the opcode
C4_Original ==
    [][(last_call = "reset" /\ ClockReturns) =>
         /\ bus_log' # <<>>
         /\ bus_log'[1] = <<"r", ResetVector, current_instruction'>>]_vars

\* the ninth tick after a reset() has run
C4_Witness ==
    /\ since_reset = 9 /\ fault = NoFault
    /\ last_call \in {"clock", "debug_clock"} /\ bus_log # <<>>

\* C5: an irq() or nmi() call made while the cycle counter is above 0
\* pushes nothing, leaves PC alone and does not reload the counter.
C5_InterruptWaitsForBoundary ==
    [][(InterruptReturns /\ cycles > 0) =>
         (sp' = sp /\ pc' = pc /\ cycles' = cycles /\ ram' = ram)]_vars

\* the status byte a call pushed, when it pushed one
BrkPushed ==
    /\ last_call \in {"clock", "debug_clock"} /\ fault = NoFault
    /\ Len(bus_log) >= 4 /\ current_opcode.instruction = "BRK"

PhpPushed ==
    /\ last_call \in {"clock", "debug_clock"} /\ fault = NoFault
    /\ Len(bus_log) >= 2 /\ current_opcode.instruction = "PHP"

InterruptPushed ==
    /\ last_call \in {"irq", "nmi"} /\ fault = NoFault
    /\ Len(bus_log) >= 3

\* C6: every status byte written to the stack has bit 5 set; bit 4 is set
\* when BRK or PHP wrote it and clear when irq() or nmi() wrote it.
C6_PushedStatusBits ==
    /\ BrkPushed => (Bit(bus_log[4][3], 5) = 1 /\ Bit(bus_log[4][3], 4) = 1)
    /\ PhpPushed => (Bit(bus_log[2][3], 5) = 1 /\ Bit(bus_log[2][3], 4) = 1)
    /\ InterruptPushed =>
          (Bit(bus_log[3][3], 5) = 1 /\ Bit(bus_log[3][3], 4) = 0)

\* C7: no call changes the bytes a read of ROM space returns.  Such a read
\* returns a byte of prg, at an index that depends on the address alone.
C7_RomWriteInert ==
    [][fault' = NoFault => prg' = prg]_vars

\* the addresses and bytes the mirror is probed with
MirrorProbes == {\H0000, \H0005, \H07FF, \H0800, \H0805, \H1005, \H1FFF}
ByteProbes == {\H00, \H5A, \HFF}

\* C8: in every state, for an address a of $0000-$1FFF and a byte v, a bus
\* write of v at a followed by a bus read at a XOR $0800 returns v; and two
\* addresses of that range that are equal modulo $0800 read the same byte.
C8_RamMirror ==
    fault = NoFault =>
        /\ \A addr \in MirrorProbes, v \in ByteProbes :
              \E r \in {Then(Bus_write(Machine, addr, v), LAMBDA w :
                             Bus_read(w, BitXor(addr, \H0800)))} :
                  r.fault = NoFault /\ r.data = v
        /\ \A a1, a2 \in MirrorProbes :
              (a1 % \H0800 = a2 % \H0800) =>
                  Bus_read(Machine, a1).data = Bus_read(Machine, a2).data

\* the program stored $5A at $0005 and read it back at $0805
C8_Witness ==
    /\ last_call = "clock" /\ fault = NoFault
    /\ Len(bus_log) = 4 /\ bus_log[4] = <<"r", \H0805, \H5A>>
    /\ a = \H5A

\* the instructions that only read their operand
ReadType ==
    {"ADC", "AND", "BIT", "CMP", "CPX", "CPY", "EOR", "LDA", "LDX", "LDY",
     "ORA", "SBC", "LAX"}

\* the step indexed an address across a page: the high byte of the indexed
\* address differs from the high byte of the base
PageCrossed ==
    LET mode == current_opcode'.mode
        index == IF mode = "IndexedAbsoluteX" THEN x ELSE y
        base == (current_fetched_word' - index) % 65536
    IN  /\ mode \in {"IndexedAbsoluteX", "IndexedAbsoluteY", "IndirectIndexed"}
        /\ base \div 256 # current_fetched_word' \div 256

\* C9: the tick that fetches an instruction other than a branch leaves the
\* counter at b - 1 + 1 when the mode crossed a page and the instruction is
\* read-type, and at b - 1 otherwise, b being its base cycle count; every
\* other tick takes 1 off the counter, and the next fetch is at 0.  So the
\* instruction takes b + 1 ticks in the first case and b in the second, and
\* a store or a read-modify-write never pays the page-cross cycle.
C9_PageCrossCycle ==
    [][ClockReturns =>
         IF cycles = 0
         THEN current_opcode'.mode # "Relative" =>
                 cycles' + 1 = current_opcode'.cycles
                     + (IF PageCrossed /\ current_opcode'.instruction \in ReadType
                        THEN 1 ELSE 0)
         ELSE cycles' = cycles - 1]_vars

\* LDA $C001,X with X = $FF has been fetched: 4 + 1 cycles, one of them run
C9_Witness ==
    /\ last_call = "clock" /\ fault = NoFault
    /\ current_instruction = \HBD /\ bus_log # <<>>
    /\ current_fetched_word = \HC100 /\ cycles = 4

operand_bytes(mode) ==
    CASE mode \in {"Implied", "Accumulator"} -> 0
      [] mode \in {"Immediate", "Relative", "ZeroPage", "IndexedZeroPageX",
                   "IndexedZeroPageY", "IndexedIndirect", "IndirectIndexed"} -> 1
      [] OTHER -> 2

\* the instructions whose handler assigns PC
AssignsPc ==
    {"JMP", "JSR", "RTS", "RTI", "BRK",
     "BCC", "BCS", "BEQ", "BMI", "BNE", "BPL", "BVC", "BVS"}

\* the machine when the opcode and its operands are fetched and the handler
\* has not run yet
fetch_stage(s) ==
    Then(load_instruction(s), LAMBDA s1 :
    Then(pc_add(s1, 1), LAMBDA s2 :
    fetch(s2, s2.current_opcode.mode)))

\* C10: on a tick that fetches, load_instruction and fetch together advance
\* PC by 1 + operand_bytes(mode), and that is PC after the tick when the
\* handler of the instruction does not assign PC.
C10_PcAdvance ==
    [][FetchReturns =>
         \E f \in {fetch_stage(Machine)} :
            /\ f.pc = (pc + 1 + operand_bytes(current_opcode'.mode)) % 65536
            /\ current_opcode'.instruction \notin AssignsPc => pc' = f.pc]_vars

\* LDA ($10),Y has been fetched from $C009
C10_Witness ==
    /\ last_call = "clock" /\ fault = NoFault
    /\ current_opcode.mode = "IndirectIndexed" /\ bus_log # <<>>
    /\ pc = \HC00B

(***************************************************************************)
(* Whole instructions, and the programs that put the CPU in the states the *)
(* properties of single instructions are about.                            *)
(***************************************************************************)
\* clock() called until the instruction in progress has run its cycles
RECURSIVE finish(_)
finish(s) ==
    Then(s, LAMBDA t :
        IF t.fault # NoFault \/ t.cycles = 0 THEN t ELSE finish(clock(t)))

\* clock() called from an instruction boundary to the next one
run_one(s) == Then(clock(s), LAMBDA t : finish(t))

\* the stack pointers and accumulators the programs load
SpProbes == {\H00, \H01, \H02, \H80, \HFF}
AProbes == {\H00, \H5A, \H80}

\* LDX #spv; TXS; LDA #av; PHA; PLA; PHP; PLP; BRK
StackProgram(spv, av) ==
    Place(\HC000, <<\HA2, spv, \H9A, \HA9, av, \H48, \H68, \H08, \H28, \H00>>)
    @@ Handlers

\* LDX #spv; TXS; JSR $C010; BRK ... $C010: RTS
CallProgram(spv) ==
    Place(\HC000, <<\HA2, spv, \H9A, \H20, \H10, \HC0, \H00>>)
    @@ Place(\HC010, <<\H60>>) @@ Handlers

\* JMP (ptr), with the bytes a pointer in ROM finds at $C1FF, $C100, $C200,
\* $C120 and $C121
JumpProgram(ptr) ==
    Place(\HC000, <<\H6C, Lo(ptr), Hi(ptr)>>)
    @@ Place(\HC100, <<\HC0>>) @@ Place(\HC120, <<\H40, \HC0>>)
    @@ Place(\HC1FF, <<\H34, \HC1>>) @@ Handlers

\* LDA #$80; STA $02FF; LDA #$50; STA $0200; LDA #$C0; STA $0300;
\* JMP ($02FF)
JumpRamProgram ==
    Place(\HC000, <<\HA9, \H80, \H8D, \HFF, \H02, \HA9, \H50, \H8D, \H00, \H02,
                    \HA9, \HC0, \H8D, \H00, \H03, \H6C, \HFF, \H02>>)
    @@ Handlers

\* BCC, BCS, BEQ, BMI, BNE, BPL, BVC, BVS
BranchOpcodes == {\H90, \HB0, \HF0, \H30, \HD0, \H10, \H50, \H70}

\* where a branch is placed and the offset it holds: within the page,
\* forward across a page, backward across a page
BranchCases ==
    {[at |-> \HC0FA, offset |-> \H02],
     [at |-> \HC0FA, offset |-> \H10],
     [at |-> \HC0FE, offset |-> \HFC]}

\* LDA #$7F; ADC #$01 leaves N and V set, Z and C clear; LDA #$00; SEC; NOP
\* leaves Z and C set, N and V clear.  Then JMP to the branch.
BranchProgram(opcode, flags_set, case) ==
    Place(\HC000, IF flags_set THEN <<\HA9, \H7F, \H69, \H01>>
                               ELSE <<\HA9, \H00, \H38, \HEA>>)
    @@ Place(\HC004, <<\H4C, Lo(case.at), Hi(case.at)>>)
    @@ Place(case.at, <<opcode, case.offset>>) @@ Handlers

\* PLA, PLP, RTS, RTI
PullOpcodes == {\H68, \H28, \H60, \H40}

\* LDX #$FF; TXS; and a pull
PullProgram(opcode) ==
    Place(\HC000, <<\HA2, \HFF, \H9A, opcode>>) @@ Handlers

RunImages ==
    {[num_prg_banks |-> 1, bytes |-> StackProgram(spv, av)] :
        spv \in SpProbes, av \in AProbes}
    \cup {[num_prg_banks |-> 1, bytes |-> PullProgram(opcode)] :
            opcode \in PullOpcodes}
    \cup {[num_prg_banks |-> 1, bytes |-> CallProgram(spv)] : spv \in SpProbes}
    \cup {[num_prg_banks |-> 1, bytes |-> JumpProgram(ptr)] :
            ptr \in {\HC1FF, \HC120}}
    \cup {[num_prg_banks |-> 1, bytes |-> JumpRamProgram]}
    \cup {[num_prg_banks |-> 1, bytes |-> BranchProgram(opcode, flags_set, case)] :
            opcode \in BranchOpcodes, flags_set \in BOOLEAN, case \in BranchCases}

\* LDX #spv; TXS; CLI; LDA #$80; NOP; NOP; BRK
InterruptProgram(spv) ==
    Place(\HC000, <<\HA2, spv, \H9A, \H58, \HA9, \H80, \HEA, \HEA, \H00>>)
    @@ Handlers

InterruptImages ==
    {[num_prg_banks |-> 1, bytes |-> InterruptProgram(spv)] : spv \in SpProbes}

\* CPU::new(rom_vector), for each image of a set and each build
InitOn(images) ==
    /\ \E image \in images :
        /\ num_prg_banks = image.num_prg_banks
        /\ prg = PrgOf(image.num_prg_banks, image.bytes)
    /\ overflow_checks \in BOOLEAN
    /\ a = 0 /\ x = 0 /\ y = 0
    /\ pc = \HC000
    /\ sp = \HFD
    /\ p = \H24
    /\ ram = RAM_new
    /\ io_registers = IORegisters_new
    /\ cycles = 0
    /\ current_instruction = 0
    /\ total_cycles = 7
    /\ current_opcode = [instruction |-> "NOP", mode |-> "Absolute", cycles |-> 0]
    /\ current_fetched_word = 0
    /\ fault = NoFault
    /\ last_call = "new"
    /\ bus_log = <<>>
    /\ since_reset = -1
    /\ host_calls = 0
    /\ state = State_new
    /\ returned = NothingReturned

\* a host that only calls clock()
InitRun == InitOn(RunImages)
NextRun == Clock
SpecRun == InitRun /\ [][NextRun]_vars

\* a host that calls clock() and raises interrupts
InitInterrupt == InitOn(InterruptImages)
NextInterrupt == Clock \/ Irq \/ Nmi
SpecInterrupt == InitInterrupt /\ [][NextInterrupt]_vars

\* the byte a read of addr returns in the current state
Peek(addr) == Bus_read(Machine, addr % 65536).data

\* the operand word of the instruction at pc
OperandWord == Word(Peek(pc + 2), Peek(pc + 1))

\* C11: JMP (ptr) sets PC to the byte at ptr with, as high byte, the byte at
\* ptr + 1 when the low byte of ptr is not $FF and the byte at ptr AND $FF00
\* when it is.
C11_IndirectJump ==
    [][(FetchReturns /\ current_opcode'.instruction = "JMP"
                     /\ current_opcode'.mode = "Indirect") =>
         \E ptr \in {OperandWord} :
            pc' = IF ptr % 256 # \HFF
                  THEN Word(Peek(ptr + 1), Peek(ptr))
                  ELSE Word(Peek((ptr \div 256) * 256), Peek(ptr))]_vars

\* JMP ($02FF) with $80 at $02FF, $50 at $0200 and $C0 at $0300 has run
C11_Witness ==
    /\ last_call = "clock" /\ fault = NoFault /\ bus_log # <<>>
    /\ current_opcode.instruction = "JMP" /\ current_opcode.mode = "Indirect"
    /\ current_fetched_word = \H5080 /\ pc = \H5080
    /\ Peek(\H02FF) = \H80 /\ Peek(\H0200) = \H50 /\ Peek(\H0300) = \HC0

\* clock() is about to fetch the opcode byte op
AtOpcode(op) == fault = NoFault /\ cycles = 0 /\ Peek(pc) = op

\* the two writes a push of the word w with stack pointer sp0 makes
PushedWord(sp0, w) ==
    << <<"w", StackAddr(sp0), Hi(w)>>,
       <<"w", StackAddr((sp0 - 1) % 256), Lo(w)>> >>

\* C12: JSR at p with target t writes the high byte of p + 2 at $0100 + SP,
\* then the low byte one below, takes 2 off SP and sets PC to t; an RTS that
\* then finds those bytes and that SP sets PC to p + 3 and puts SP back.  For
\* the calls that return.
C12_CallAndReturn ==
    AtOpcode(\H20) =>
        \E t \in {OperandWord}, r1 \in {run_one(Machine)} :
            r1.fault = NoFault =>
                /\ SubSeq(r1.log, 4, 5) = PushedWord(sp, (pc + 2) % 65536)
                /\ r1.sp = (sp - 2) % 256
                /\ r1.pc = t
                /\ Bus_read(r1, t).data = \H60 =>
                     \E r2 \in {run_one(r1)} :
                        r2.fault = NoFault =>
                            r2.pc = (pc + 3) % 65536 /\ r2.sp = sp

\* the RTS at $C010 has returned to the instruction after JSR $C010 at $C003
C12_Witness ==
    /\ last_call = "clock" /\ fault = NoFault /\ bus_log # <<>>
    /\ current_opcode.instruction = "RTS"
    /\ pc = \HC006 /\ Peek(\HC003) = \H20
    /\ Word(Peek(StackAddr(sp)), Peek(StackAddr((sp - 1) % 256))) = \HC005

Branches == {"BCC", "BCS", "BEQ", "BMI", "BNE", "BPL", "BVC", "BVS"}

\* the predicate of a branch instruction on the status byte
BranchTaken(instruction, status) ==
    CASE instruction = "BCC" -> Bit(status, 0) = 0
      [] instruction = "BCS" -> Bit(status, 0) = 1
      [] instruction = "BEQ" -> Bit(status, 1) = 1
      [] instruction = "BNE" -> Bit(status, 1) = 0
      [] instruction = "BMI" -> Bit(status, 7) = 1
      [] instruction = "BPL" -> Bit(status, 7) = 0
      [] instruction = "BVC" -> Bit(status, 6) = 0
      [] instruction = "BVS" -> Bit(status, 6) = 1

\* an operand byte as a signed offset
SignExtend(b) == IF b >= 128 THEN b - 256 ELSE b

\* C13: a branch whose predicate is false leaves PC after its operand and
\* adds no cycle; one whose predicate is true sets PC to that PC plus the
\* sign-extended offset, modulo 2^16, adds one cycle, and one more exactly
\* when the two PCs differ in their high byte.  For the calls that return.
C13_Branch ==
    [][(FetchReturns /\ current_opcode'.instruction \in Branches) =>
         \E after \in {(pc + 2) % 65536} :
         \E target \in {(after + SignExtend(Peek(pc + 1))) % 65536} :
            IF BranchTaken(current_opcode'.instruction, p)
            THEN /\ pc' = target
                 /\ cycles' = current_opcode'.cycles - 1 + 1
                        + (IF after \div 256 # target \div 256 THEN 1 ELSE 0)
            ELSE /\ pc' = after
                 /\ cycles' = current_opcode'.cycles - 1]_vars

\* BCC at $C0FA with offset $10 has been taken across a page
C13_Witness ==
    /\ last_call = "clock" /\ fault = NoFault /\ bus_log # <<>>
    /\ current_opcode.instruction = "BCC" /\ Peek(\HC0FA) = \H90
    /\ pc = \HC10C /\ cycles = 3

\* C14: irq() called with the I flag (bit 2 of P) set changes nothing: the
\* registers, all of memory and both cycle counters stay as they were.
C14_MaskedIrq ==
    [][(last_call' = "irq" /\ Bit(p, 2) = 1) =>
         /\ fault' = NoFault
         /\ UNCHANGED <<a, x, y, sp, pc, p, ram, prg, io_registers,
                        cycles, total_cycles>>]_vars

\* irq() has returned with I set and without touching the bus, in the middle
\* of an instruction
C14_Witness ==
    /\ last_call = "irq" /\ fault = NoFault
    /\ Bit(p, 2) = 1 /\ bus_log = <<>> /\ cycles \in 1..6

\* the first three bus accesses of log are the writes of an interrupt entry
\* that finds the stack pointer sp0: the word w, high byte first, and then
\* a byte that holds the flags of status (bits 4 and 5, which exist only on
\* the stack, aside)
InterruptEntry(log, sp0, w, status) ==
    /\ Len(log) >= 3
    /\ SubSeq(log, 1, 2) = PushedWord(sp0, w)
    /\ log[3][1] = "w" /\ log[3][2] = StackAddr((sp0 - 2) % 256)
    /\ BitAnd(log[3][3], \HCF) = BitAnd(status, \HCF)

\* P as the three interrupt entries push it: I is set before the write
WithI(status) == BitOr(status, \H04)

\* C15: irq() called with the I flag clear writes the high byte of PC at
\* $0100 + SP, the low byte and P at the next two addresses below, modulo
\* 256, takes 3 off SP modulo 256, sets I, sets PC to the word at
\* $FFFE/$FFFF and sets the cycle counter to 7.
C15_Irq ==
    [][(last_call' = "irq" /\ Bit(p, 2) = 0) =>
         /\ fault' = NoFault
         /\ InterruptEntry(bus_log', sp, pc, WithI(p))
         /\ sp' = (sp - 3) % 256
         /\ Bit(p', 2) = 1
         /\ pc' = Word(Peek(\HFFFF), Peek(\HFFFE))
         /\ cycles' = 7]_vars

C18_PhaPla ==
    (AtOpcode(\H48) /\ Peek(pc + 1) = \H68) =>
        \E r \in {run_one(run_one(Machine))} :
            /\ r.fault = NoFault
            /\ r.a = a /\ r.sp = sp
            /\ Bit(r.p, 1) = (IF a = 0 THEN 1 ELSE 0)
            /\ Bit(r.p, 7) = Bit(a, 7)

\* C19: PHP with PLP right after it leaves SP as it was before the PHP, and
\* P as it was in every bit other than bit 4, which PLP leaves clear.  For
\* the calls that return.
C19_PhpPlp ==
    (AtOpcode(\H08) /\ Peek(pc + 1) = \H28) =>
        \E r \in {run_one(run_one(Machine))} :
            r.fault = NoFault =>
                /\ r.sp = sp
                /\ BitAnd(r.p, \HEF) = BitAnd(p, \HEF)
                /\ Bit(r.p, 4) = 0

\* the PLP after the PHP at $C007 has run, with N set and SP loaded as $80
C19_Witness ==
    /\ last_call = "clock" /\ fault = NoFault /\ bus_log # <<>>
    /\ current_opcode.instruction = "PLP"
    /\ pc = \HC009 /\ Peek(\HC007) = \H08
    /\ sp = \H80 /\ Bit(p, 7) = 1
    /\ bus_log[2] = <<"r", \H0180, BitOr(p, \H10)>>

StackInstructions == {"PHA", "PHP", "PLA", "PLP", "JSR", "RTS", "RTI", "BRK"}

\* the bus accesses of a call that come after the reads of the opcode and,
\* for JSR, of its two operand bytes
AfterFetch(call, instruction, log) ==
    CASE call # "clock" -> log
      [] instruction = "JSR" -> SubSeq(log, 4, Len(log))
      [] OTHER -> Tail(log)

\* every access of log other than the reads of an interrupt vector is in
\* the stack page
InStackPage(log) ==
    \A i \in 1..Len(log) :
        log[i][2] < \HFFFA => log[i][2] \in \H0100..\H01FF

\* C20: pushes and pulls wrap SP modulo 256 without any error: a push with
\* SP = $00 writes $0100 and leaves SP = $FF, a pull with SP = $FF leaves
\* SP = $00 and reads $0100, and every stack access of PHA, PHP, PLA, PLP,
\* JSR, RTS, RTI, BRK, irq() and nmi() is in $0100-$01FF.
C20_StackWraps ==
    [][\E instruction \in {decode(Peek(pc)).instruction} :
         \/ /\ last_call' = "clock" /\ fault = NoFault /\ cycles = 0
            /\ instruction \in StackInstructions
         \/ /\ last_call' = "nmi"
         \/ /\ last_call' = "irq" /\ Bit(p, 2) = 0
         =>
         /\ fault' = NoFault
         /\ InStackPage(AfterFetch(last_call', instruction, bus_log'))
         /\ (last_call' = "clock" /\ instruction \in {"PHA", "PHP"} /\ sp = \H00) =>
                /\ sp' = \HFF
                /\ \E i \in 1..Len(bus_log') :
                      bus_log'[i][1] = "w" /\ bus_log'[i][2] = \H0100
         /\ (last_call' = "clock" /\ instruction \in {"PLA", "PLP"} /\ sp = \HFF) =>
                /\ sp' = \H00
                /\ \E i \in 1..Len(bus_log') :
                      bus_log'[i][1] = "r" /\ bus_log'[i][2] = \H0100]_vars

(***************************************************************************)
(* Arithmetic: programs that run ADC and SBC on chosen operands.           *)
(***************************************************************************)
\* the accumulators and operands of the arithmetic programs: the ends of the
\* range, both sides of the sign change, and the complement of each
AluProbes == {\H00, \HFF, \H01, \HFE, \H7F, \H80, \H3F, \HC0, \H40, \HBF}

\* ADC #imm, SBC #imm
AluOpcodes == {\H69, \HE9}

\* CLC or SEC; LDA #av; ADC #mv or SBC #mv
AluProgram(carry, av, opcode, mv) ==
    Place(\HC000, <<IF carry = 1 THEN \H38 ELSE \H18, \HA9, av, opcode, mv>>)
    @@ Handlers

AluImages ==
    {[num_prg_banks |-> 1, bytes |-> AluProgram(carry, av, opcode, mv)] :
        carry \in {0, 1}, av \in AluProbes, opcode \in AluOpcodes,
        mv \in AluProbes}

InitAlu == InitOn(AluImages)
NextAlu == Clock
SpecAlu == InitAlu /\ [][NextAlu]_vars

\* the operand an arithmetic instruction has read: the last access of its
\* fetch tick
OperandRead(log) == log[Len(log)][3]

\* C21: ADC leaves A = (A + M + C) mod 256, C set exactly when A + M + C is
\* above 255, Z set exactly when the new A is 0, N = bit 7 of the new A, and
\* V set exactly when A and M agree in bit 7 and the new A differs there.
C21_Adc ==
    [][(FetchReturns /\ current_opcode'.instruction = "ADC") =>
         \E M \in {OperandRead(bus_log')} :
         \E sum \in {a + M + Bit(p, 0)} :
            /\ a' = sum % 256
            /\ Bit(p', 0) = (IF sum > 255 THEN 1 ELSE 0)
            /\ Bit(p', 1) = (IF a' = 0 THEN 1 ELSE 0)
            /\ Bit(p', 7) = Bit(a', 7)
            /\ Bit(p', 6) = (IF Bit(a, 7) = Bit(M, 7) /\ Bit(a', 7) # Bit(a, 7)
                             THEN 1 ELSE 0)]_vars

\* CLC; LDA #$7F; ADC #$01 has run: A = $80 with V and N set, C and Z clear
C21_Witness ==
    /\ last_call = "clock" /\ fault = NoFault /\ bus_log # <<>>
    /\ current_opcode.instruction = "ADC" /\ pc = \HC005
    /\ Peek(\HC000) = \H18 /\ Peek(\HC002) = \H7F /\ Peek(\HC004) = \H01
    /\ a = \H80
    /\ Bit(p, 6) = 1 /\ Bit(p, 7) = 1 /\ Bit(p, 0) = 0 /\ Bit(p, 1) = 0

\* C22: SBC leaves A = (A - M - (1 - C)) mod 256, C set exactly when
\* A - M - (1 - C) is not negative, Z set exactly when the new A is 0, and
\* N = bit 7 of the new A.
C22_Sbc ==
    [][(FetchReturns /\ current_opcode'.instruction = "SBC") =>
         \E M \in {OperandRead(bus_log')} :
         \E difference \in {a - M - (1 - Bit(p, 0))} :
            /\ a' = difference % 256
            /\ Bit(p', 0) = (IF difference >= 0 THEN 1 ELSE 0)
            /\ Bit(p', 1) = (IF a' = 0 THEN 1 ELSE 0)
            /\ Bit(p', 7) = Bit(a', 7)]_vars

\* the machine with the two bytes at pc replaced in the PRG
WithCodeAtPc(opcode, operand) ==
    [Machine EXCEPT
        !.prg = ArrayPut(ArrayPut(@, prg_conversion(num_prg_banks, pc - ROM_START),
                                  opcode),
                         prg_conversion(num_prg_banks, pc + 1 - ROM_START), operand)]

\* the flags C, Z, V and N of a status byte
ArithmeticFlags(status) == BitAnd(status, \HC3)

\* C23: SBC #M leaves the same A and the same C, Z, V and N as ADC #(M XOR
\* $FF) run from the same state.
C23_SbcIsAdcOfComplement ==
    AtOpcode(\HE9) =>
        \E sbc \in {run_one(Machine)} :
        \E adc \in {run_one(WithCodeAtPc(\H69, BitXor(Peek(pc + 1), \HFF)))} :
            /\ sbc.fault = NoFault /\ adc.fault = NoFault
            /\ sbc.a = adc.a
            /\ ArithmeticFlags(sbc.p) = ArithmeticFlags(adc.p)

\* the flags C, I, D and V of a status byte
UntouchedByLoad(status) == BitAnd(status, \H4D)

\* C24: LDA #v takes exactly 2 ticks and leaves A = v, Z set exactly when v
\* is 0 and N = bit 7 of v; X, Y, SP, the flags C, V, D and I and all of
\* memory stay as they were.
C24_LdaImmediate ==
    AtOpcode(\HA9) =>
        \E v \in {Peek(pc + 1)}, r \in {run_one(Machine)} :
            /\ r.fault = NoFault
            /\ r.total_cycles = total_cycles + 2 /\ r.cycles = 0
            /\ r.a = v
            /\ Bit(r.p, 1) = (IF v = 0 THEN 1 ELSE 0)
            /\ Bit(r.p, 7) = Bit(v, 7)
            /\ r.x = x /\ r.y = y /\ r.sp = sp
            /\ UntouchedByLoad(r.p) = UntouchedByLoad(p)
            /\ r.ram = ram /\ r.prg = prg /\ r.io_registers = io_registers

\* the fetch tick of SEC; LDA #$80 has run: A = $80, N set, Z clear, C kept
C24_Witness ==
    /\ last_call = "clock" /\ fault = NoFault /\ bus_log # <<>>
    /\ current_instruction = \HA9 /\ pc = \HC003
    /\ Peek(\HC000) = \H38 /\ Peek(\HC002) = \H80
    /\ a = \H80 /\ Bit(p, 7) = 1 /\ Bit(p, 1) = 0 /\ Bit(p, 0) = 1
    /\ cycles = 1

\* addresses of the cartridge's two halves: their ends, the programs, the
\* interrupt handlers and the vectors
RomProbes ==
    {\H8000, \H8004, \H8010, \HBFFF, \HC000, \HC004, \HC010, \HC0F0,
     \HFFFA, \HFFFC, \HFFFF}

\* C25: with one PRG bank a bus read at a of $8000-$FFFF returns
\* prg[(a - $8000) mod $4000], so that a and a XOR $4000 read the same byte;
\* with two PRG banks it returns prg[a - $8000].
C25_PrgMapping ==
    fault = NoFault =>
        \A addr \in RomProbes :
            \E r \in {Bus_read(Machine, addr)} :
                /\ r.fault = NoFault
                /\ num_prg_banks = 1 =>
                      /\ r.data = ArrayGet(prg, (addr - \H8000) % \H4000)
                      /\ r.data = Peek(BitXor(addr, \H4000))
                /\ num_prg_banks = 2 =>
                      r.data = ArrayGet(prg, addr - \H8000)

\* with one PRG bank the opcode fetched at $C000 is the byte $8000 holds
C25_Witness ==
    /\ last_call = "clock" /\ fault = NoFault /\ num_prg_banks = 1
    /\ Len(bus_log) >= 1 /\ bus_log[1][1] = "r" /\ bus_log[1][2] = \HC000
    /\ bus_log[1][3] # 0 /\ bus_log[1][3] = Peek(\H8000)
    /\ bus_log[1][3] = ArrayGet(prg, 0)


\* ---- the loader: rom/rom.rs, and the State of lib.rs ----

HEADER_SIZE == 16
expected_nes == <<\H4E, \H45, \H53, \H1A>>

\* An image is held as its length and its first HEADER_SIZE bytes (all of its
\* bytes when it is shorter). The bytes after the header stand for
\* themselves: a slice of the image is the pair of offsets that bounds it.

\* the error of ROMHeader::new
InvalidHeader(header_bytes) ==
    [kind |-> "InvalidHeader", header_bytes |-> header_bytes]

\* ROMHeader::new that compares the first three bytes only
ROMHeader_new_three_bytes(header_bytes) ==
    IF SubSeq(header_bytes, 1, 3) # SubSeq(expected_nes, 1, 3)
    THEN [ok |-> FALSE, error |-> InvalidHeader(header_bytes)]
    ELSE [ok |-> TRUE,
          header |-> [nes |-> SubSeq(header_bytes, 1, 4),
                      num_prg_banks |-> header_bytes[5],
                      num_chr_banks |-> header_bytes[6],
                      lower_mapper_bits |-> header_bytes[7],
                      upper_mapper_bits |-> header_bytes[8],
                      zeros |-> SubSeq(header_bytes, 9, 16)]]

\* ROMHeader::new(header_bytes)
ROMHeader_new(header_bytes) ==
    IF SubSeq(header_bytes, 1, 4) # expected_nes
    THEN [ok |-> FALSE, error |-> InvalidHeader(header_bytes)]
    ELSE [ok |-> TRUE,
          header |-> [nes |-> SubSeq(header_bytes, 1, 4),
                      num_prg_banks |-> header_bytes[5],
                      num_chr_banks |-> header_bytes[6],
                      lower_mapper_bits |-> header_bytes[7],
                      upper_mapper_bits |-> header_bytes[8],
                      zeros |-> SubSeq(header_bytes, 9, 16)]]

\* ROMHeader::prg_rom_start_offset
prg_rom_start_offset(header) ==
    IF BitAnd(header.lower_mapper_bits, \H04) # 0
    THEN HEADER_SIZE + 512
    ELSE HEADER_SIZE

\* rom_bytes[from..to]: the slice, or the panic of a range outside the image
Slice(rom_bytes, from, to) ==
    IF from > to \/ to > rom_bytes.len
    THEN [ok |-> FALSE]
    ELSE [ok |-> TRUE, from |-> from, to |-> to]

\* ROM::new(rom_bytes): Ok(rom), Err(error), or a panic
ROM_new(rom_bytes) ==
    IF ~Slice(rom_bytes, 0, HEADER_SIZE).ok
    THEN [outcome |-> "panic"]
    ELSE Then(ROMHeader_new(rom_bytes.head), LAMBDA h :
         IF ~h.ok
         THEN [outcome |-> "err", error |-> h.error]
         ELSE LET header == h.header
                  prg_end == prg_rom_start_offset(header)
                                 + (header.num_prg_banks * \H4000)
                  chr_end == prg_end + header.num_chr_banks
                                 * (header.num_chr_banks * \H2000)
                  prg_bytes == Slice(rom_bytes, prg_rom_start_offset(header),
                                     prg_end)
                  chr_bytes == Slice(rom_bytes, prg_end, chr_end)
              IN  IF ~prg_bytes.ok \/ ~chr_bytes.ok
                  THEN [outcome |-> "panic"]
                  ELSE [outcome |-> "ok",
                        rom |-> [header |-> header,
                                 prg |-> [from |-> prg_bytes.from,
                                          to |-> prg_bytes.to],
                                 chr |-> [from |-> chr_bytes.from,
                                          to |-> chr_bytes.to]]])

\* CPU::new(rom_vector): the registers, and the ROM of its bus; "Unable to
\* load rom" when the image has no valid header
CPU_new(rom_vector) ==
    Then(ROM_new(rom_vector), LAMBDA r :
         IF r.outcome # "ok"
         THEN [outcome |-> "panic"]
         ELSE [outcome |-> "ok",
               cpu |-> [rom |-> r.rom, a |-> 0, x |-> 0, y |-> 0,
                        pc |-> \HC000, sp |-> \HFD, p |-> \H24,
                        cycles |-> 0, total_cycles |-> 7]])

\* what a call on the State leaves: the State, the value returned and the
\* panic, if any
Left(st, call, rom_bytes, outcome, error, panic) ==
    [state |-> st,
     returned |-> [call |-> call, rom_bytes |-> rom_bytes,
                   outcome |-> outcome, error |-> error],
     fault |-> panic]

NoError == [kind |-> "none"]

\* State::set_cpu that builds the CPU before it looks at the header
State_set_cpu_unchecked(st, rom_bytes) ==
    Then(ROM_new(rom_bytes), LAMBDA r :
         IF r.outcome = "panic"
         THEN Left(st, "set_cpu", rom_bytes, "panic", NoError, "index")
         ELSE IF r.outcome = "err"
         THEN Left([st EXCEPT !.cpu = None], "set_cpu", rom_bytes, "err",
                   r.error, NoFault)
         ELSE Left([rom |-> Some(r.rom), cpu |-> Some(CPU_new(rom_bytes).cpu)],
                   "set_cpu", rom_bytes, "ok", NoError, NoFault))

\* State::set_rom(rom_bytes)
State_set_rom(st, rom_bytes) ==
    Then(ROM_new(rom_bytes), LAMBDA r :
         IF r.outcome = "panic"
         THEN Left(st, "set_rom", rom_bytes, "panic", NoError, "index")
         ELSE IF r.outcome = "err"
         THEN Left(st, "set_rom", rom_bytes, "err", r.error, NoFault)
         ELSE Left([st EXCEPT !.rom = Some(r.rom)], "set_rom", rom_bytes,
                   "ok", NoError, NoFault))

\* State::set_cpu(rom_bytes)
State_set_cpu(st, rom_bytes) ==
    Then(ROM_new(rom_bytes), LAMBDA r :
         IF r.outcome = "panic"
         THEN Left(st, "set_cpu", rom_bytes, "panic", NoError, "index")
         ELSE IF r.outcome = "err"
         THEN Left(st, "set_cpu", rom_bytes, "err", r.error, NoFault)
         ELSE Then(CPU_new(rom_bytes), LAMBDA c :
              IF c.outcome = "panic"
              THEN Left(st, "set_cpu", rom_bytes, "panic", NoError,
                        "Unable to load rom")
              ELSE Left([rom |-> Some(r.rom), cpu |-> Some(c.cpu)],
                        "set_cpu", rom_bytes, "ok", NoError, NoFault)))

\* the images a host loads: a right or a wrong magic number, one or two PRG
\* banks, up to two CHR banks, with and without a trainer, of the size the
\* header announces or an overdump of it; and a file cut inside its header
Magics ==
    {expected_nes, <<\H4F, \H45, \H53, \H1A>>, <<\H4E, \H45, \H53, \H00>>}

HeaderOf(magic, P, K, flags6) ==
    magic \o <<P, K, flags6, \H00>> \o <<0, 0, 0, 0, 0, 0, 0, 0>>

Announced(P, K, flags6) ==
    HEADER_SIZE + (IF BitAnd(flags6, \H04) # 0 THEN 512 ELSE 0)
        + P * \H4000 + K * \H2000

Overdump == \H8000

LoadImages ==
    {[head |-> HeaderOf(magic, P, K, flags6),
      len |-> Announced(P, K, flags6) + extra] :
        magic \in Magics, P \in {1, 2}, K \in {0, 1, 2},
        flags6 \in {\H00, \H04}, extra \in {0, Overdump}}
    \cup {[head |-> SubSeq(expected_nes, 1, 4) \o <<1, 1, 0, 0>>, len |-> 8]}

\* the addresses the PPU side asks the mapper for
ChrProbes == {\H0000, \H1FFF, \H2000, \H3FFF}

\* how many images a host loads in a behaviour
MaxLoads == 2

\* the CPU of the other specifications is left as CPU::new made it
CpuVars ==
    <<a, x, y, pc, sp, p, cycles, total_cycles, current_instruction,
      current_opcode, current_fetched_word, ram, prg, io_registers,
      num_prg_banks, overflow_checks, bus_log, since_reset>>

Leaves(r) ==
    /\ state' = r.state
    /\ returned' = r.returned
    /\ fault' = r.fault
    /\ last_call' = r.returned.call
    /\ host_calls' = host_calls + 1
    /\ UNCHANGED CpuVars

SetRom ==
    /\ Running /\ host_calls < MaxLoads
    /\ \E rom_bytes \in LoadImages :
        \E r \in {State_set_rom(state, rom_bytes)} : Leaves(r)

SetCpu ==
    /\ Running /\ host_calls < MaxLoads
    /\ \E rom_bytes \in LoadImages :
        \E r \in {State_set_cpu(state, rom_bytes)} : Leaves(r)

\* the mapper of the loaded image is asked for a CHR address
ChrConversion ==
    /\ Running /\ state.rom.some
    /\ returned.call # "chr_conversion"
    /\ \E address \in ChrProbes :
        returned' = [call |-> "chr_conversion", address |-> address,
                     value |-> chr_conversion(
                                   state.rom.value.header.num_prg_banks,
                                   state.rom.value.header.num_chr_banks,
                                   address)]
    /\ last_call' = "chr_conversion"
    /\ UNCHANGED <<state, fault, host_calls>>
    /\ UNCHANGED CpuVars

InitLoad == InitOn({[num_prg_banks |-> 1, bytes |-> Handlers]})
NextLoad == SetRom \/ SetCpu \/ ChrConversion
SpecLoad == InitLoad /\ [][NextLoad]_vars

\* C26: chr_conversion(addr) returns addr mod $2000 when the image has
\* exactly one CHR bank and addr itself when it has more than one, whatever
\* the number of PRG banks.
C26_ChrConversion ==
    returned.call = "chr_conversion" =>
        LET K == state.rom.value.header.num_chr_banks
        IN  /\ K = 1 => returned.value = returned.address % \H2000
            /\ K > 1 => returned.value = returned.address

\* the image of the last set_rom or set_cpu was loaded
Loaded ==
    /\ returned.call \in {"set_rom", "set_cpu"}
    /\ returned.outcome = "ok"

\* C27: for a valid header with P PRG banks and K CHR banks the loaded
\* PRG-ROM is the P * 16384 bytes from image offset 16 (16 + 512 when bit 2
\* of header byte 6 is set), and the loaded CHR-ROM is exactly the K * 8192
\* bytes that follow the PRG-ROM.
C27_LoadedBanks ==
    Loaded =>
        LET head == returned.rom_bytes.head
            P == head[5]
            K == head[6]
            start == IF BitAnd(head[7], \H04) # 0 THEN 16 + 512 ELSE 16
            rom == state.rom.value
        IN  /\ rom.prg = [from |-> start, to |-> start + P * 16384]
            /\ rom.chr = [from |-> rom.prg.to, to |-> rom.prg.to + K * 8192]

\* C28: loading an image returns the error InvalidHeader, carrying the
\* image's first 16 bytes, if and only if bytes 0-3 differ from 4E 45 53 1A;
\* and when set_rom or set_cpu returns that error the State keeps the rom
\* and the cpu it held. (Images that hold a whole header.)
C28_InvalidHeader ==
    [][(/\ host_calls' = host_calls + 1
        /\ returned'.call \in {"set_rom", "set_cpu"}
        /\ returned'.rom_bytes.len >= HEADER_SIZE)
       => /\ (/\ returned'.outcome = "err"
              /\ returned'.error = InvalidHeader(returned'.rom_bytes.head))
             <=> SubSeq(returned'.rom_bytes.head, 1, 4) # expected_nes
          /\ returned'.outcome = "err" => state' = state]_vars

\* set_cpu has returned InvalidHeader to a State that holds a rom and a cpu
C28_Witness ==
    /\ returned.call = "set_cpu"
    /\ returned.outcome = "err"
    /\ returned.error.kind = "InvalidHeader"
    /\ state.rom.some /\ state.cpu.some

\* the mnemonics the decoder declares and run_instruction leaves
\* unimplemented: ALR, ANC, ARR, AXS, each with an immediate operand
DeclaredOpcodes == {\H4B, \H0B, \H6B, \HCB}
DeclaredProbes == {\H00, \H5A, \HFF}

\* CLC or SEC; LDA #av; then one of them with the operand mv: a program
\* whose bus accesses are all reads of PRG-ROM
DeclaredImages ==
    {[num_prg_banks |-> 1, bytes |-> AluProgram(carry, av, opcode, mv)] :
        carry \in {0, 1}, av \in DeclaredProbes, opcode \in DeclaredOpcodes,
        mv \in DeclaredProbes}

InitDeclared == InitOn(DeclaredImages)
NextDeclared == Clock
SpecDeclared == InitDeclared /\ [][NextDeclared]_vars

\* C29: the only fault the execution loop raises is the decode error of an
\* opcode byte with no mapping: an instruction that decodes, ALR, ANC, ARR
\* and AXS included, and whose bus accesses stay inside RAM and PRG-ROM,
\* never faults.
C29_OnlyDecodeFaults == fault \in {NoFault, "decode"}

\* the offsets of the I/O register file
IoOffsets == 0 .. (APU_IO_END - APU_IO_START)
UnusedOffsets == {\H09, \H0D, \H14, \H16}

\* LDA #$5A; STA $4000+k1; LDX #$A5; STX $4000+k2: two writes to the I/O
\* register file
IoProgram(k1, k2) ==
    Place(\HC000, <<\HA9, \H5A, \H8D, k1, \H40, \HA2, \HA5, \H8E, k2, \H40>>)
    @@ Handlers

IoImages ==
    {[num_prg_banks |-> 1, bytes |-> IoProgram(k1, k2)] :
        k1 \in IoOffsets, k2 \in IoOffsets}

InitIo == InitOn(IoImages)
NextIo == Clock
SpecIo == InitIo /\ [][NextIo]_vars

\* the register field the I/O register file names for offset k; the unused
\* offsets name none
NamedField(io, k) ==
    CASE k = \H00 -> io.pulse_1.vol
      [] k = \H01 -> io.pulse_1.sweep
      [] k = \H02 -> io.pulse_1.lo
      [] k = \H03 -> io.pulse_1.hi
      [] k = \H04 -> io.pulse_2.vol
      [] k = \H05 -> io.pulse_2.sweep
      [] k = \H06 -> io.pulse_2.lo
      [] k = \H07 -> io.pulse_2.hi
      [] k = \H08 -> io.triangle.linear
      [] k = \H0A -> io.triangle.lo
      [] k = \H0B -> io.triangle.hi
      [] k = \H0C -> io.noise.vol
      [] k = \H0E -> io.noise.lo
      [] k = \H0F -> io.noise.hi
      [] k = \H10 -> io.dmc.freq
      [] k = \H11 -> io.dmc.raw
      [] k = \H12 -> io.dmc.start
      [] k = \H13 -> io.dmc.len
      [] k = \H15 -> io.control_status
      [] k = \H17 -> io.frame_counter
      [] OTHER -> 0

\* the next instruction is STA or STX to an I/O register
AtIoStore ==
    /\ fault = NoFault /\ cycles = 0
    /\ Peek(pc) \in {\H8D, \H8E}
    /\ OperandWord \in APU_IO_START .. APU_IO_END

\* C30: a write to I/O register offset k in $00-$17 never faults and
\* changes at most the register field named for k; writes to the offsets
\* $09, $0D, $14 and $16 leave the whole register file as it was; and no I/O
\* write changes RAM, ROM or a CPU register.
C30_IoWrite ==
    [][(AtIoStore /\ last_call' = "clock") =>
         LET k == OperandWord - APU_IO_START
             r == Bus_write(Machine, OperandWord, IF Peek(pc) = \H8D THEN a ELSE x)
         IN  /\ fault' = NoFault /\ r.fault = NoFault
             /\ Len(bus_log') = 4
             /\ bus_log'[4][1] = "w" /\ bus_log'[4][2] = OperandWord
             /\ io_registers' = r.io_registers
             /\ \A j \in IoOffsets \ {k} :
                    NamedField(io_registers', j) = NamedField(io_registers, j)
             /\ k \in UnusedOffsets => io_registers' = io_registers
             /\ ram' = ram /\ r.ram = ram
             /\ prg' = prg /\ r.prg = prg
             /\ a' = a /\ x' = x /\ y' = y /\ sp' = sp /\ p' = p
             /\ r.a = a /\ r.x = x /\ r.y = y /\ r.sp = sp /\ r.p = p
             /\ r.pc = pc]_vars

\* a write to the unused offset $09 has followed a write to $08
C30_Witness ==
    /\ fault = NoFault
    /\ Len(bus_log) = 4
    /\ bus_log[4] = <<"w", \H4009, \HA5>>
    /\ io_registers.triangle.linear = \H5A

\* C31: irq() and nmi() push P before they set I: the status byte they store
\* on the stack carries the I flag of before the interrupt, so that the byte
\* an IRQ stacks has I = 0.
C31_StackedBeforeI ==
    [][(last_call' \in {"irq", "nmi"} /\ fault' = NoFault
        /\ (last_call' = "irq" => Bit(p, 2) = 0)) =>
         /\ Len(bus_log') >= 3
         /\ bus_log'[3][1] = "w"
         /\ Bit(bus_log'[3][3], 2) = Bit(p, 2)]_vars

\* the status bytes an RTI finds on the stack
StatusProbes == {\H00, \H10, \H24, \HEF, \HFF}

\* LDA #$C0; PHA; LDA #$20; PHA; LDA #status; PHA; RTI: a return through
\* three bytes the program has pushed itself
RtiProgram(status) ==
    Place(\HC000, <<\HA9, \HC0, \H48, \HA9, \H20, \H48, \HA9, status, \H48,
                    \H40>>)
    @@ Handlers

RtiImages ==
    {[num_prg_banks |-> 1, bytes |-> RtiProgram(status)] :
        status \in StatusProbes}

InitReturn == InitOn(RtiImages)
NextReturn == Clock
SpecReturn == InitReturn /\ [][NextReturn]_vars

\* C32: RTI pops P, then PC low, then PC high: SP goes up by 3 modulo 256,
\* PC is the popped word itself, and the P it leaves has bit 4 clear
\* whatever byte was on the stack.  For the calls that return.
C32_Rti ==
    [][(AtOpcode(\H40) /\ last_call' = "clock" /\ fault' = NoFault) =>
         /\ Len(bus_log') = 4
         /\ bus_log'[2][2] = StackAddr((sp + 1) % 256)
         /\ bus_log'[3][2] = StackAddr((sp + 2) % 256)
         /\ bus_log'[4][2] = StackAddr((sp + 3) % 256)
         /\ sp' = (sp + 3) % 256
         /\ pc' = Word(bus_log'[4][3], bus_log'[3][3])
         /\ BitAnd(p', \HEF) = BitAnd(bus_log'[2][3], \HEF)
         /\ Bit(p', 4) = 0]_vars

\* one instruction for each memory addressing mode, with the index values
\* it runs under: <<opcode and operand bytes, X, Y>>.  The zero-page sums
\* $F0 + $20, $80 + $80 and $FF + 1 pass the end of the page; $C0F0 + $20
\* crosses a page.
ModeCases ==
    {<< <<\HA5, \H00>>, 0, 0 >>,                \* LDA $00
     << <<\HB5, \HF0>>, \H0F, 0 >>,             \* LDA $F0,X
     << <<\HB5, \HF0>>, \H20, 0 >>,
     << <<\HB6, \HF0>>, 0, \H0F >>,             \* LDX $F0,Y
     << <<\HB6, \HF0>>, 0, \H20 >>,
     << <<\HAD, \H10, \HC1>>, 0, 0 >>,          \* LDA $C110
     << <<\HBD, \HF0, \HC0>>, \H20, 0 >>,       \* LDA $C0F0,X
     << <<\HB9, \HF0, \HC0>>, 0, \H20 >>,       \* LDA $C0F0,Y
     << <<\HA1, \H00>>, 0, 0 >>,                \* LDA ($00,X)
     << <<\HA1, \HFF>>, 0, 0 >>,
     << <<\HA1, \HF0>>, \H0F, 0 >>,
     << <<\HA1, \H80>>, \H80, 0 >>,
     << <<\HA1, \HF0>>, \H11, 0 >>,
     << <<\H81, \HFF>>, 0, 0 >>,                \* STA ($FF,X)
     << <<\HB1, \H00>>, 0, 0 >>,                \* LDA ($00),Y
     << <<\HB1, \H00>>, 0, 1 >>,
     << <<\HB1, \HFF>>, 0, 0 >> }

\* LDA #$10; STA $00; LDA #$C1; STA $01; LDA #$80; STA $FF; LDX #xv;
\* LDY #yv; and the instruction at $C010.  The pointer at $00/$01 is $C110,
\* the pointer at $FF/$00 is $1080; $C110 and $C111 hold $77 and $88.
ModeProgram(case) ==
    Place(\HC000, <<\HA9, \H10, \H85, \H00, \HA9, \HC1, \H85, \H01,
                    \HA9, \H80, \H85, \HFF, \HA2, case[2], \HA0, case[3]>>
                  \o case[1])
    @@ Place(\HC110, <<\H77, \H88>>) @@ Handlers

ModeImages ==
    {[num_prg_banks |-> 1, bytes |-> ModeProgram(case)] : case \in ModeCases}

InitModes == InitOn(ModeImages)
NextModes == Clock
SpecModes == InitModes /\ [][NextModes]_vars

\* the next instruction is fetched by this step, in the addressing mode am
Fetches(am) ==
    /\ fault = NoFault /\ cycles = 0
    /\ last_call' = "clock" /\ fault' = NoFault
    /\ current_opcode'.mode = am

\* C33: in IndexedIndirect addressing with the operand byte z the low byte
\* of the effective address is read at (z + X) mod 256 and the high byte at
\* (z + X + 1) mod 256: both reads are in the zero page, also when z + X or
\* z + X + 1 is above $FF.
C33_IndexedIndirect ==
    [][Fetches("IndexedIndirect") =>
         \E z \in {Peek(pc + 1)} :
             /\ Len(bus_log') >= 4
             /\ bus_log'[3][1] = "r" /\ bus_log'[3][2] = (z + x) % 256
             /\ bus_log'[4][1] = "r" /\ bus_log'[4][2] = (z + x + 1) % 256
             /\ bus_log'[3][2] <= \HFF /\ bus_log'[4][2] <= \HFF
             /\ current_fetched_word' = Word(bus_log'[4][3], bus_log'[3][3])]_vars

\* LDA ($F0,X) with X = $0F has read its pointer at $FF and $00
C33_Witness ==
    /\ last_call = "clock" /\ fault = NoFault
    /\ current_opcode.mode = "IndexedIndirect"
    /\ x = \H0F
    /\ Len(bus_log) >= 4
    /\ bus_log[2] = <<"r", \HC011, \HF0>>
    /\ bus_log[3] = <<"r", \H00FF, \H80>>
    /\ bus_log[4] = <<"r", \H0000, \H10>>
    /\ current_fetched_word = \H1080

\* the memory addressing modes, and the bus reads the addressing phase of
\* each makes after the read of the opcode
MemoryModes ==
    {"ZeroPage", "IndexedZeroPageX", "IndexedZeroPageY", "Absolute",
     "IndexedAbsoluteX", "IndexedAbsoluteY", "IndexedIndirect",
     "IndirectIndexed"}

AddressingReads(am) ==
    CASE am \in {"ZeroPage", "IndexedZeroPageX", "IndexedZeroPageY"} -> 1
      [] am \in {"Absolute", "IndexedAbsoluteX", "IndexedAbsoluteY"} -> 2
      [] OTHER -> 3

\* C34: in every memory addressing mode the operand a read-type instruction
\* consumes is the byte stored at the effective address the addressing
\* phase computed, and getting it reads the bus at that address only.  Here
\* for the loads LDA and LDX, whose operand is the register they leave.
C34_OperandAtEffectiveAddress ==
    [][(/\ fault = NoFault /\ cycles = 0
        /\ last_call' = "clock" /\ fault' = NoFault
        /\ current_opcode'.mode \in MemoryModes
        /\ current_opcode'.instruction \in {"LDA", "LDX"}) =>
         \E first \in {2 + AddressingReads(current_opcode'.mode)} :
             /\ Len(bus_log') >= first
             /\ \A i \in first .. Len(bus_log') :
                    /\ bus_log'[i][1] = "r"
                    /\ bus_log'[i][2] = current_fetched_word'
             /\ (IF current_opcode'.instruction = "LDA" THEN a' ELSE x')
                    = Peek(current_fetched_word')]_vars

\* LDA #status; PHA; PLP; BRK: a pull of P through a byte the program has
\* pushed itself
PlpProgram(status) ==
    Place(\HC000, <<\HA9, status, \H48, \H28, \H00>>) @@ Handlers

StatusImages ==
    {[num_prg_banks |-> 1, bytes |-> PlpProgram(status)] :
        status \in StatusProbes}
    \cup RtiImages

\* a host that calls clock(), and reset(), irq() and nmi() at any tick
InitStatus == InitOn(StatusImages)
NextStatus == Clock \/ Reset \/ Irq \/ Nmi
SpecStatus == InitStatus /\ [][NextStatus]_vars

\* C35: bit 5 of P (named B in the code) is 1 in every state a host can
\* observe between its calls: after CPU::new, after reset(), after irq() and
\* nmi(), and after every clock(), the ticks that run PLP or RTI on any
\* stacked byte and the ticks that run BRK included.
C35_Bit5Set == Bit(p, 5) = 1

\* PLP has pulled $00, a byte with bit 5 clear
C35_Witness ==
    /\ last_call = "clock" /\ fault = NoFault
    /\ current_opcode.instruction = "PLP"
    /\ Len(bus_log) = 2 /\ bus_log[2][1] = "r" /\ bus_log[2][3] = \H00
    /\ Bit(p, 5) = 1

\* the programs that reach the longest instructions: branches taken and not
\* taken, within a page and across one, and indexed reads, stores and
\* read-modify-writes across a page
CycleImages ==
    {[num_prg_banks |-> 1, bytes |-> BranchProgram(opcode, flags_set, case)] :
        opcode \in BranchOpcodes, flags_set \in BOOLEAN, case \in BranchCases}
    \cup Images

\* a host that calls clock(), and reset(), irq() and nmi() at any tick
InitCycles == InitOn(CycleImages)
NextCycles == Clock \/ Reset \/ Irq \/ Nmi
SpecCycles == InitCycles /\ [][NextCycles]_vars

\* C36: the cycle counter of the instruction never underflows: in every
\* state reached through new, reset, clock, irq and nmi it holds at least 1
\* when clock() takes one off, and it never holds more than 9.  (A counter
\* taken below 0 holds 255 in a build without overflow checks.)
C36_CycleCounter ==
    /\ cycles \in 0 .. 9
    /\ fault = NoFault =>
         \E r \in {clock(Machine)} :
             r.fault = NoFault => r.cycles \in 0 .. 8

\* the counter reset() set to 8 has been counted down to 0
C36_Witness ==
    /\ last_call = "clock" /\ fault = NoFault
    /\ since_reset = 8 /\ cycles = 0

\* the machine after the interrupt entry r has been waited out and the
\* instruction at its vector has run
AfterHandler(r) == run_one(run_one(r))

\* s returns from the interrupt entry r, whose handler starts with RTI, to
\* the PC and SP the interrupt found
ReturnsTo(r) ==
    (r.fault = NoFault /\ Bus_read(r, r.pc).data = \H40) =>
        \E r2 \in {AfterHandler(r)} :
            r2.fault = NoFault => (r2.pc = pc /\ r2.sp = sp)

\* C37: when irq(), with I clear, or nmi() is delivered between two
\* instructions and an RTI then runs on the three bytes and the SP the
\* interrupt left, PC and SP are back at the values they had when the
\* interrupt was delivered.  For the calls that return.
C37_InterruptRoundTrip ==
    (fault = NoFault /\ cycles = 0) =>
        /\ Bit(p, 2) = 0 => ReturnsTo(irq(Machine))
        /\ ReturnsTo(nmi(Machine))

\* irq() was delivered when CLI at $C003 had completed, and the RTI of its
\* handler has returned to $C004 with SP as TXS had set it
C37_Witness ==
    /\ last_call = "clock" /\ fault = NoFault
    /\ current_opcode.instruction = "RTI" /\ Len(bus_log) = 4
    /\ bus_log[1][2] = IrqHandler
    /\ host_calls = 1 /\ total_cycles = 7 + 6 + 7 + 1
    /\ pc = \HC004 /\ sp = \H80

\* a host that steps the CPU with clock() or with debug_clock()
DebugImages == ModeImages \cup RtiImages
InitDebug == InitOn(DebugImages)
NextDebug == Clock \/ DebugClock
SpecDebug == InitDebug /\ [][NextDebug]_vars

\* the state of the CPU and of its memory that a call leaves
Observed(r) ==
    <<r.fault, r.a, r.x, r.y, r.sp, r.p, r.pc, r.ram, r.prg, r.io_registers,
      r.cycles, r.total_cycles>>

\* C38: debug_clock() and clock() are the same state transition: from the
\* same CPU and memory state one call of either leaves the same A, X, Y, SP,
\* P, PC, memory, cycle counter and total_cycles.
C38_DebugClockIsClock ==
    fault = NoFault =>
        Observed(debug_clock(Machine)) = Observed(clock(Machine))

\* debug_clock() has fetched and run the RTI that pops $00 as P
C38_Witness ==
    /\ last_call = "debug_clock" /\ fault = NoFault
    /\ current_opcode.instruction = "RTI" /\ Len(bus_log) = 4
    /\ bus_log[2][3] = \H00 /\ p = \H20
====
